---------------------------- MODULE Spec2Model ----------------------------
(***************************************************************************)
(* DeFrame operator console (src/App.tsx, first App component, lines       *)
(* 22-578) with its persistence client (src/supabase.ts).                  *)
(*                                                                         *)
(* The model follows the JavaScript event loop: a handler runs without     *)
(* interruption from its first statement to its first `await` (or to its   *)
(* end); the continuation after an `await` is a separate task that the     *)
(* loop dispatches once the awaited promise has settled.  The synchronous  *)
(* body of handleMonteCarlo is unfolded into steps (mcpc) so that every    *)
(* draw of Math.random() is visible; while mcpc # "idle" the loop          *)
(* dispatches nothing else, unless the body yields (McYields).             *)
(*                                                                         *)
(* JavaScript numbers are modelled by Num: a fixed-point value with Scale  *)
(* units per 1.0, or NaN, +Infinity, -Infinity, with the IEEE-754 rules    *)
(* for the non-finite values.  Results are rounded to the nearest unit,    *)
(* and a magnitude above MaxFin overflows to an infinity, as a double      *)
(* does above Number.MAX_VALUE.  Negative zero is not distinguished.       *)
(***************************************************************************)
EXTENDS Integers, Sequences, FiniteSets, TLC

---------------------------------------------------------------------------
(* Numbers                                                                 *)

\* Fixed-point units per 1.0 (the representation of `number`).
Scale == 10 * 10

\* Largest finite magnitude, in units; anything larger is an infinity.
MaxFin == 2 * 10000000

Fin(n) == [t |-> "fin", v |-> n]
NaN == [t |-> "nan", v |-> 0]
PosInf == [t |-> "inf", v |-> 1]
NegInf == [t |-> "inf", v |-> -1]

IsNaN(a) == a.t = "nan"
IsInf(a) == a.t = "inf"
IsFinite(a) == a.t = "fin"

Abs(n) == IF n < 0 THEN -n ELSE n
Sgn(n) == IF n < 0 THEN -1 ELSE IF n > 0 THEN 1 ELSE 0

\* The sign of a number that is not NaN: -1, 0 or 1.
SignOf(a) == Sgn(a.v)

InfOf(s) == IF s < 0 THEN NegInf ELSE PosInf

\* A finite result, overflowing to an infinity beyond MaxFin.
Norm(n) == IF Abs(n) > MaxFin THEN InfOf(n) ELSE Fin(n)

\* n / d rounded to the nearest integer, halves away from zero (d > 0).
RoundDiv(n, d) == Sgn(n) * ((Abs(n) + d \div 2) \div d)

Zero == Fin(0)
One == Fin(Scale)
Two == Fin(2 * Scale)
Half == Fin(Scale \div 2)

\* Unary minus.
Neg(a) == IF IsNaN(a) THEN NaN ELSE [t |-> a.t, v |-> -a.v]

\* a + b
Add(a, b) ==
  IF IsNaN(a) \/ IsNaN(b) THEN NaN
  ELSE IF IsInf(a) /\ IsInf(b) THEN (IF a.v = b.v THEN a ELSE NaN)
  ELSE IF IsInf(a) THEN a
  ELSE IF IsInf(b) THEN b
  ELSE Norm(a.v + b.v)

\* a - b
Sub(a, b) == Add(a, Neg(b))

\* a * b
Mul(a, b) ==
  IF IsNaN(a) \/ IsNaN(b) THEN NaN
  ELSE IF IsInf(a) \/ IsInf(b)
       THEN (IF SignOf(a) * SignOf(b) = 0 THEN NaN ELSE InfOf(SignOf(a) * SignOf(b)))
  ELSE IF a.v = 0 \/ b.v = 0 THEN Zero
  ELSE IF Abs(a.v) > (MaxFin * Scale) \div Abs(b.v) THEN InfOf(SignOf(a) * SignOf(b))
  ELSE Norm(RoundDiv(a.v * b.v, Scale))

\* a / b
Div(a, b) ==
  IF IsNaN(a) \/ IsNaN(b) THEN NaN
  ELSE IF IsInf(a) /\ IsInf(b) THEN NaN
  ELSE IF IsInf(a) THEN InfOf(a.v * (IF b.v < 0 THEN -1 ELSE 1))
  ELSE IF IsInf(b) THEN Zero
  ELSE IF b.v = 0 THEN (IF a.v = 0 THEN NaN ELSE InfOf(a.v))
  ELSE Norm(Sgn(a.v) * Sgn(b.v) * RoundDiv(Abs(a.v) * Scale, Abs(b.v)))

\* a < b (false when either is NaN)
Lt(a, b) ==
  IF IsNaN(a) \/ IsNaN(b) THEN FALSE
  ELSE IF IsInf(a) THEN a.v < 0 /\ b # NegInf
  ELSE IF IsInf(b) THEN b.v > 0
  ELSE a.v < b.v

\* Math.max(a, b)
Max(a, b) ==
  IF IsNaN(a) \/ IsNaN(b) THEN NaN
  ELSE IF Lt(a, b) THEN b ELSE a

\* Units per 1.0 inside the series below (more digits than Scale).
Fine == Scale * Scale

\* Math.PI
Pi == Fin(RoundDiv(314159 * Scale, 100000))

\* floor(sqrt(n)) for 0 <= n < 2^31, by bisection on [lo, hi].
RECURSIVE ISqrtIter(_, _, _)
ISqrtIter(n, lo, hi) ==
  IF lo >= hi THEN lo
  ELSE LET mid == (lo + hi + 1) \div 2
       IN IF mid * mid <= n THEN ISqrtIter(n, mid, hi) ELSE ISqrtIter(n, lo, mid - 1)

ISqrt(n) == ISqrtIter(n, 0, 46340)

\* Math.sqrt(a)
Sqrt(a) ==
  IF IsNaN(a) THEN NaN
  ELSE IF a.v < 0 THEN NaN
  ELSE IF IsInf(a) THEN PosInf
  ELSE Fin(ISqrt(a.v * Scale))

\* sum of x^k / k! for k = n .. 8, in Fine units; term is x^(n-1)/(n-1)!.
RECURSIVE ExpSeries(_, _, _)
ExpSeries(x, term, n) ==
  IF n > 8 THEN term
  ELSE term + ExpSeries(x, RoundDiv(term * x, n * Fine), n + 1)

\* Above this argument exp exceeds MaxFin.
ExpMaxArg == 13 * Scale

\* exp(x / Scale) * Scale for x >= 0: halve the argument down to [0, 1], then square.
RECURSIVE ExpPos(_)
ExpPos(x) ==
  IF x > ExpMaxArg THEN PosInf
  ELSE IF x <= Scale THEN Fin(RoundDiv(ExpSeries(x * (Fine \div Scale), Fine, 1), Fine \div Scale))
  ELSE LET h == ExpPos(x \div 2)
       IN Mul(Mul(h, h), ExpPos(x % 2))

\* Math.exp(a)
Exp(a) ==
  IF IsNaN(a) THEN NaN
  ELSE IF IsInf(a) THEN (IF a.v > 0 THEN PosInf ELSE Zero)
  ELSE IF a.v >= 0 THEN ExpPos(a.v)
  ELSE Div(One, ExpPos(-a.v))

\* sum of t^k / k for odd k = n .. 21, in Fine units; pow is t^n.
RECURSIVE LnSeries(_, _, _)
LnSeries(t, pow, n) ==
  IF n > 21 THEN 0
  ELSE RoundDiv(pow, n) + LnSeries(t, RoundDiv(pow * RoundDiv(t * t, Fine), Fine), n + 2)

\* ln 2, in Fine units.
Ln2 == RoundDiv(69315 * Fine, 100000)

\* ln(x / Scale) in Fine units for x > 0: double or halve x into [1/2, 2], then
\* ln x = 2 atanh((x - 1) / (x + 1)).
RECURSIVE LnFine(_)
LnFine(x) ==
  IF 2 * x < Scale THEN LnFine(2 * x) - Ln2
  ELSE IF x > 2 * Scale THEN LnFine(x \div 2) + Ln2
  ELSE LET t == RoundDiv((x - Scale) * Fine, x + Scale)
       IN 2 * LnSeries(t, t, 1)

\* Math.log(a)
Log(a) ==
  IF IsNaN(a) THEN NaN
  ELSE IF a.v < 0 THEN NaN
  ELSE IF IsInf(a) THEN PosInf
  ELSE IF a.v = 0 THEN NegInf
  ELSE Fin(RoundDiv(LnFine(a.v), Fine \div Scale))

\* sum of (-1)^k x^(2k) / (2k)! from the term of degree n on, in Fine units.
RECURSIVE CosSeries(_, _, _)
CosSeries(x, term, n) ==
  IF n > 12 THEN term
  ELSE term + CosSeries(x, -RoundDiv(RoundDiv(term * x, Fine) * x, n * (n - 1) * Fine), n + 2)

\* cos(r / Scale) * Scale for 0 <= r <= pi / 2.
CosQuarter(r) == RoundDiv(CosSeries(r * (Fine \div Scale), Fine, 2), Fine \div Scale)

\* Math.cos(a)
Cos(a) ==
  IF ~IsFinite(a) THEN NaN
  ELSE LET m == a.v % (2 * Pi.v)
           r == IF m > Pi.v THEN 2 * Pi.v - m ELSE m
       IN IF 2 * r > Pi.v THEN Fin(-CosQuarter(Pi.v - r)) ELSE Fin(CosQuarter(r))

---------------------------------------------------------------------------
(* The option pricer's arithmetic (src/App.tsx, boxMuller and              *)
(* handleMonteCarlo)                                                       *)

\* boxMuller without its two while loops: the first value drawn is kept.
RedrawNever(x) == FALSE

\* while (u === 0) u = Math.random(): the value is drawn again while it is zero.
Redraw(x) == x = Zero

\* A generator that reads the configuration: under the seed 42 the source's value,
\* under any other seed the fixed value 0.25.
SeededValue(cfg, x) == IF cfg.seed = Fin(42 * Scale) THEN x ELSE Fin(Scale \div 4)

\* The value boxMuller takes from Math.random(): the source's value as it is;
\* the configuration (and its seed) plays no part.
RandomValue(cfg, x) == x

\* Math.sqrt(-2.0 * Math.log(u)) * Math.cos(2.0 * Math.PI * v)
BoxMullerValue(u, v) ==
  Mul(Sqrt(Mul(Neg(Two), Log(u))), Cos(Mul(Mul(Two, Pi), v)))

\* const disc = Math.exp(-r * T)
Disc(params) == Exp(Mul(Neg(params.r), params.T))

\* The terminal price with the shock added to, not scaled by, sigma * sqrt(T).
TerminalPriceAdditive(params, z) ==
  Mul(params.S0,
      Exp(Add(Mul(Sub(params.r, Mul(Half, Mul(params.sigma, params.sigma))), params.T),
              Add(Mul(params.sigma, Sqrt(params.T)), z))))

\* const ST = S0 * Math.exp((r - 0.5 * sigma ** 2) * T + sigma * Math.sqrt(T) * z)
TerminalPrice(params, z) ==
  Mul(params.S0,
      Exp(Add(Mul(Sub(params.r, Mul(Half, Mul(params.sigma, params.sigma))), params.T),
              Mul(Mul(params.sigma, Sqrt(params.T)), z))))

\* Math.max(ST - K, 0)
\* A payoff without the floor at zero: ST - K.
PayoffNoFloor(params, z) == Sub(TerminalPrice(params, z), params.K)

\* Math.max(ST - config.params.K, 0)
Payoff(params, z) == Max(Sub(TerminalPrice(params, z), params.K), Zero)

\* The loop test written i <= simConfig.iterations.
LoopContinuesInclusive(i, iterations) ==
  Lt(Fin(i * Scale), iterations) \/ Fin(i * Scale) = iterations

\* i < simConfig.iterations, for the integer loop counter i
LoopContinues(i, iterations) == Lt(Fin(i * Scale), iterations)

\* The price without its discount factor.
PriceNoDiscount(cfg, sumPayoffs) == Div(sumPayoffs, cfg.iterations)

\* const price = disc * (sumPayoffs / simConfig.iterations)
Price(cfg, sumPayoffs) == Mul(Disc(cfg.params), Div(sumPayoffs, cfg.iterations))

\* The number of decimals asked of toFixed.
FixedDigits == 6

RECURSIVE Pow10(_)
Pow10(n) == IF n = 0 THEN 1 ELSE 10 * Pow10(n - 1)

\* Number.prototype.toFixed(digits): "NaN", "Infinity", "-Infinity" (no decimals),
\* or sign, integer part and `digits` decimals (frac is those decimals read as an
\* integer, rounded to the nearest).
ToFixed(a, digits) ==
  IF IsNaN(a) THEN [s |-> "NaN", int |-> 0, frac |-> 0, digits |-> 0]
  ELSE IF IsInf(a)
  THEN [s |-> IF a.v > 0 THEN "Infinity" ELSE "-Infinity", int |-> 0, frac |-> 0, digits |-> 0]
  ELSE [s |-> IF a.v < 0 THEN "-" ELSE "",
        int |-> Abs(a.v) \div Scale,
        frac |-> RoundDiv((Abs(a.v) % Scale) * Pow10(digits), Scale),
        digits |-> digits]

\* { results: { option_price: price }, summary: `MC Price ~ ${price.toFixed(6)}` }
SimResultOf(price) ==
  [t |-> "result",
   results |-> [option_price |-> price],
   summary |-> [text |-> "MC Price ~ ", fixed |-> ToFixed(price, FixedDigits)]]

\* A setSimResult that keeps a result already held.
KeepFirstResult(held, price) == IF held = [t |-> "null"] THEN SimResultOf(price) ELSE held

\* setSimResult(...): the new result replaces the one held.
NextSimResult(held, price) == SimResultOf(price)

\* A try block that throws unless the configuration asks for at least one trial.
ThrowsOnNoTrials(cfg) == ~Lt(Zero, cfg.iterations)

\* Whether a statement of handleMonteCarlo's try block throws: none does.  Math.exp,
\* Math.max, Math.sqrt, Math.log and Math.cos are total on numbers, the arithmetic
\* yields NaN or an infinity instead of failing, toFixed(6) accepts every number,
\* setSimResult accepts every value and addLog's persistLog is an async function,
\* which returns a promise and never throws into its caller.
TryBlockThrows(cfg) == FALSE

\* A finally block that leaves the state of the run in place.
FinallyKeepsState == "SIMULATING"

\* finally { setAppState(AppState.IDLE) }
FinallyAppState == "IDLE"

\* A handleMonteCarlo that awaits inside its loop.
McYieldsEachTrial == TRUE

\* Whether handleMonteCarlo gives up the thread before it ends: its body holds no
\* await, so it does not.
McYields == FALSE

---------------------------------------------------------------------------
(* Bounds and input sets                                                   *)

\* The longest loop the model runs: a run is explored when its iterations field
\* asks for at most this many trials.
MaxTrials == 2

\* Simulation runs per behaviour.
MaxRuns == 2

\* Handler invocations per behaviour, the simulation runs among them (edits of the
\* simulation controls and log flushes are not counted).
MaxOps == 2

\* What Math.random() returns: 0, 0.1 or 0.5.
Uniform == {Zero, Fin(Scale \div 10), Fin(Scale \div 2)}

\* What the operator types into Iter_Buffer_Size: 0, 1, ..., MaxTrials.
IterChoices == {Fin(k * Scale) : k \in 0..MaxTrials}

\* What the operator types into Stochastic_Seed.
SeedChoices == {Fin(42 * Scale), Fin(7 * Scale)}

\* useState<SimulationConfig>({ iterations: 50000, seed: 42,
\*   params: { S0: 100, K: 105, T: 1, r: 0.05, sigma: 0.2 } })
DefaultParams ==
  [S0 |-> Fin(100 * Scale), K |-> Fin(105 * Scale), T |-> One,
   r |-> Fin(Scale \div 20), sigma |-> Fin(Scale \div 5)]

DefaultConfig ==
  [iterations |-> Fin(50000 * Scale), seed |-> Fin(42 * Scale), params |-> DefaultParams]

\* The values a SimulationConfig's iterations field (a number) is given when the
\* pricer is studied for every configuration: the typed ones, -1, 1.5 and NaN.
IterAny == IterChoices \cup {Fin(-Scale), Fin((3 * Scale) \div 2), NaN}

\* The parameter records the pricer is studied for: the defaults; no volatility;
\* no volatility with a negative and with an infinite horizon; an infinite initial
\* price; a rate that is not a number.
ParamChoices ==
  { DefaultParams,
    [DefaultParams EXCEPT !.sigma = Zero],
    [DefaultParams EXCEPT !.sigma = Zero, !.T = Neg(One)],
    [DefaultParams EXCEPT !.sigma = Zero, !.T = PosInf],
    [DefaultParams EXCEPT !.S0 = PosInf],
    [DefaultParams EXCEPT !.r = NaN] }

\* What a master build's request can come back with: a rejection, text that is not
\* JSON, JSON without files, or JSON with files (and telemetry_logs).
BuildReplies ==
  { [kind |-> "reject", files |-> <<>>, telemetry |-> <<>>],
    [kind |-> "badjson", files |-> <<>>, telemetry |-> <<>>],
    [kind |-> "nofiles", files |-> <<>>, telemetry |-> <<"t1">>],
    [kind |-> "files", files |-> <<[path |-> <<"src", "a.ts">>, content |-> "x"]>>,
     telemetry |-> <<>>],
    [kind |-> "files",
     files |-> <<[path |-> <<"src", "a.ts">>, content |-> "y"],
                 [path |-> <<"b.ts">>, content |-> "x"]>>,
     telemetry |-> <<"t1">>],
    [kind |-> "files",
     files |-> <<[path |-> <<"src", "a.ts">>, content |-> "x"],
                 [path |-> <<"src", "a.ts">>, content |-> "y"]>>,
     telemetry |-> <<>>] }

---------------------------------------------------------------------------
(* State                                                                   *)

VARIABLES
  appState,     \* useState<AppState>
  simConfig,    \* useState<SimulationConfig>
  simResult,    \* useState<any>(null)
  logs,         \* useState<LogEntry[]>, newest first
  errors,       \* useState<LogEntry[]>, newest first
  chatHistory,  \* useState<ChatMessage[]>
  vfs,          \* the children of vfs[0], the root folder
  stream,       \* useState<MediaStream | null>: 0 is null, n > 0 the n-th stream granted
  isScanning,   \* useState(false)
  live,         \* the streams granted whose video track has not ended
  sent,         \* the rows handed to the database client, by table
  pend,         \* the awaited requests in flight, by kind
  mcpc,         \* where the running handleMonteCarlo stands ("idle": not running)
  run,          \* the locals of the running handleMonteCarlo
  last,         \* the run that ended last: its configuration, draws and payoffs
  ops,          \* the handler invocations so far; the last build's reply, the last capture's end
  cloud,        \* the second App component (src/App.tsx, lines 643-1200): its session
                \* state, its timers and its calls of the persistence client
  ai            \* the call of an AI-layer function (src/geminiService.ts) under study

vars == <<appState, simConfig, simResult, logs, errors, chatHistory, vfs, stream,
          isScanning, live, sent, pend, mcpc, run, last, ops, cloud, ai>>

\* The state of the first App component and of its run in progress.
appVars == <<appState, simConfig, simResult, logs, errors, chatHistory, vfs, stream,
             isScanning, live, sent, pend, mcpc, run, last, ops>>

Null == [t |-> "null"]
NoArg == [t |-> "none", v |-> 0]
Str(x) == [t |-> "str", v |-> 0, s |-> x]
Msg(text, arg) == [text |-> text, arg |-> arg]

NoRun ==
  [cfg |-> DefaultConfig, sum |-> Zero, i |-> 0, u |-> Zero, v |-> Zero, xu |-> Zero,
   zero |-> FALSE, draws |-> <<>>, payoffs |-> <<>>]

\* No run has ended yet.
NoLast == [outcome |-> "none", cfg |-> DefaultConfig, draws |-> <<>>, payoffs |-> <<>>]

\* The first n elements of s (Array.prototype.slice(0, n)).
\* A slice that keeps everything.
SliceAll(s, n) == s

\* s.slice(0, n)
Slice(s, n) == IF Len(s) <= n THEN s ELSE SubSeq(s, 1, n)

\* The number of log entries kept: .slice(0, 50)
LogCap == 50

\* x || null for a field the object may lack.
FieldOrNull(obj, f) == IF f \in DOMAIN obj THEN obj[f] ELSE Null

\* A row whose details column is given the entry's metadata.
PersistLogRowWithMetadata(log) ==
  [level |-> log.level,
   message |-> log.message,
   details |-> IF log.metadata = NoArg THEN Null ELSE log.metadata,
   file |-> FieldOrNull(log, "file"),
   code_snippet |-> FieldOrNull(log, "codeSnippet")]

\* The row persistLog inserts into "logs" (id and timestamp are opaque tokens the
\* model leaves out).
PersistLogRow(log) ==
  [level |-> log.level,
   message |-> log.message,
   details |-> FieldOrNull(log, "details"),
   file |-> FieldOrNull(log, "file"),
   code_snippet |-> FieldOrNull(log, "codeSnippet")]

\* addLog(message, level, metadata) applied to ls = [logs, errors, sent].
AddLog(ls, message, level, metadata) ==
  LET newLog == [level |-> level, message |-> message, metadata |-> metadata]
  IN [logs |-> Slice(<<newLog>> \o ls.logs, LogCap),
      errors |-> IF level = "error" THEN <<newLog>> \o ls.errors ELSE ls.errors,
      sent |-> ls.sent \cup {[table |-> "logs", row |-> PersistLogRow(newLog)]}]

LogState == [logs |-> logs, errors |-> errors, sent |-> sent]

SetLogState(ls) == logs' = ls.logs /\ errors' = ls.errors /\ sent' = ls.sent

\* The event loop dispatches a task only while no handler is running.
Dispatchable == mcpc = "idle" \/ McYields

\* undefined
Undefined == [t |-> "undefined"]

\* A value that is an object or an array (truthy, whatever it holds).
Json(v) == [t |-> "json", v |-> v]

\* if (x): null and undefined are falsy, objects and arrays are truthy.
Truthy(x) == x.t \notin {"null", "undefined"}

\* A promise that has settled.
Resolved(value) == [settled |-> "resolved", value |-> value]
Rejected == [settled |-> "rejected", value |-> Undefined]

\* No call of the persistence client has settled yet.
NoResult ==
  [fn |-> "none", reply |-> "none", code |-> "", data |-> [t |-> "null"],
   result |-> Resolved(Undefined)]

\* useState<PilotConfig>({ web3Enabled: false, deploymentTarget: 'custom', backend: 'node' })
DefaultPilotConfig == [web3Enabled |-> FALSE, deploymentTarget |-> "custom", backend |-> "node"]

\* app_storage without the row of the session.
NoRow == [exists |-> FALSE, vfs_json |-> [t |-> "null"], pilot_config |-> [t |-> "null"]]

\* No session state has been written.
NothingSaved == [set |-> FALSE, vfs |-> <<>>, pilotConfig |-> DefaultPilotConfig]

\* The second App component before its effects have run.
CloudInit ==
  [mounted |-> FALSE,
   cloudStatus |-> "idle",
   appState |-> "IDLE",
   vfs |-> <<>>,
   pilotConfig |-> DefaultPilotConfig,
   isInitialMount |-> TRUE,
   timers |-> {},          \* the timeouts set and neither fired nor cleared
   timer |-> 0,            \* the timeout the cleanup of the last effect run clears (0: none)
   timerIds |-> 0,         \* the timeouts set so far
   now |-> 0,              \* the time, in ms
   changes |-> 0,          \* the renders that changed vfs or pilotConfig so far
   changedAt |-> 0,        \* the time of the last of them
   calls |-> [fetchLatestSession |-> 0, persistAppState |-> 0, persistLog |-> 0,
              persistChat |-> 0, runCodingPilot |-> 0],
   creates |-> 0,          \* the create/script directives so far
   writes |-> 0,           \* the calls of persistAppState so far
   lastResult |-> NoResult,
   lastSync |-> "none",    \* how the last load or write of the session went
   db |-> NoRow,           \* the row 'default_session' of app_storage
   inflight |-> <<>>,      \* the arguments of the persistAppState calls in flight
   saved |-> NothingSaved, \* the arguments of the last call whose write succeeded
   starts |-> 0]           \* the fresh starts of the page after the first

\* No AI-layer function has been called.
AiInit ==
  [fn |-> "none",
   reply |-> [kind |-> "none", text |-> <<>>, chunks |-> <<>>],
   result |-> Resolved(Undefined)]

\* The state after the first render, but for simConfig and the second component.
InitApp ==
  /\ appState = "IDLE"
  /\ simResult = Null
  /\ logs = <<>>
  /\ errors = <<>>
  /\ chatHistory = <<>>
  /\ vfs = <<>>
  /\ stream = 0
  /\ isScanning = FALSE
  /\ live = {}
  /\ sent = {}
  /\ pend = [media |-> 0, scan |-> 0, build |-> 0, solve |-> 0]
  /\ mcpc = "idle"
  /\ run = NoRun
  /\ last = NoLast
  /\ ops = [runs |-> 0, cmds |-> 0, granted |-> 0, built |-> "none", capture |-> "none",
            captures |-> 0]
  /\ ai = AiInit

\* The state after the first render, but for simConfig, with an empty table.
InitBut ==
  /\ InitApp
  /\ cloud = CloudInit

Init ==
  /\ simConfig = DefaultConfig
  /\ InitBut

\* The simulation panel alone, started from any configuration of the input sets.
InitPricer ==
  /\ simConfig \in [iterations : IterAny, seed : {Fin(42 * Scale)}, params : ParamChoices]
  /\ InitBut

---------------------------------------------------------------------------
(* The simulation controls                                                 *)

\* onChange of Iter_Buffer_Size: setSimConfig({...simConfig, iterations: +e.target.value})
EditIterations ==
  /\ Dispatchable
  /\ \E n \in IterChoices : simConfig' = [simConfig EXCEPT !.iterations = n]
  /\ UNCHANGED <<appState, simResult, logs, errors, chatHistory, vfs, stream, isScanning,
                 live, sent, pend, mcpc, run, last, ops>>
  /\ UNCHANGED <<cloud, ai>>

\* An onChange of Stochastic_Seed that spreads the defaults, not the current config.
EditSeedFromDefaults ==
  /\ Dispatchable
  /\ \E n \in SeedChoices : simConfig' = [DefaultConfig EXCEPT !.seed = n]
  /\ UNCHANGED <<appState, simResult, logs, errors, chatHistory, vfs, stream, isScanning,
                 live, sent, pend, mcpc, run, last, ops>>
  /\ UNCHANGED <<cloud, ai>>

\* onChange of Stochastic_Seed: setSimConfig({...simConfig, seed: +e.target.value})
EditSeed ==
  /\ Dispatchable
  /\ \E n \in SeedChoices : simConfig' = [simConfig EXCEPT !.seed = n]
  /\ UNCHANGED <<appState, simResult, logs, errors, chatHistory, vfs, stream, isScanning,
                 live, sent, pend, mcpc, run, last, ops>>
  /\ UNCHANGED <<cloud, ai>>

\* Another handler may be invoked, and another run.
CanInvoke == ops.runs + ops.cmds < MaxOps
CanRun == CanInvoke /\ ops.runs < MaxRuns

\* The loop of this configuration is short enough to explore.
Explorable(cfg) == ~Lt(Fin(MaxTrials * Scale), cfg.iterations)

\* Where the for loop goes after its test at counter i.
LoopPc(i, cfg) == IF LoopContinues(i, cfg.iterations) THEN "drawU" ELSE "finish"

\* handleMonteCarlo up to the first test of its loop, after the log state ls.
BeginRun(ls) ==
  /\ appState' = "SIMULATING"
  /\ SetLogState(AddLog(ls, Msg("SIM: RUNNING PRODUCTION-GRADE MC (N=", simConfig.iterations),
                        "info", NoArg))
  /\ run' = [NoRun EXCEPT !.cfg = simConfig]
  /\ mcpc' = LoopPc(0, simConfig)
  /\ ops' = [ops EXCEPT !.runs = @ + 1]

\* onClick of RUN_MATH_SIMULATION
McClick ==
  /\ Dispatchable
  /\ CanRun
  /\ Explorable(simConfig)
  /\ BeginRun(LogState)
  /\ UNCHANGED <<simConfig, simResult, chatHistory, vfs, stream, isScanning, live, pend, last>>
  /\ UNCHANGED <<cloud, ai>>

\* boxMuller: while (u === 0) u = Math.random()
McDrawU ==
  /\ mcpc = "drawU"
  /\ \E x \in Uniform :
       LET u == RandomValue(run.cfg, x)
       IN IF Redraw(u)
          THEN /\ run' = [run EXCEPT !.u = u, !.zero = TRUE]
               /\ mcpc' = "drawU"
          ELSE /\ run' = [run EXCEPT !.u = u, !.xu = x]
               /\ mcpc' = "drawV"
  /\ UNCHANGED <<appState, simConfig, simResult, logs, errors, chatHistory, vfs, stream,
                 isScanning, live, sent, pend, last, ops>>
  /\ UNCHANGED <<cloud, ai>>

\* boxMuller: while (v === 0) v = Math.random(); then the return value, and the rest
\* of the loop body: ST, sumPayoffs += payoff, i++ and the loop test.
McDrawV ==
  /\ mcpc = "drawV"
  /\ \E x \in Uniform :
       LET v == RandomValue(run.cfg, x)
       IN IF Redraw(v)
          THEN /\ run' = [run EXCEPT !.v = v, !.zero = TRUE]
               /\ mcpc' = "drawV"
          ELSE LET z == BoxMullerValue(run.u, v)
                   payoff == Payoff(run.cfg.params, z)
               IN /\ run' = [run EXCEPT !.v = Zero, !.u = Zero, !.xu = Zero,
                                        !.sum = Add(@, payoff),
                                        !.i = @ + 1,
                                        !.draws = Append(@, [xu |-> run.xu, xv |-> x,
                                                             u |-> run.u, v |-> v]),
                                        !.payoffs = Append(@, payoff)]
                  /\ mcpc' = LoopPc(run.i + 1, run.cfg)
  /\ UNCHANGED <<appState, simConfig, simResult, logs, errors, chatHistory, vfs, stream,
                 isScanning, live, sent, pend, last, ops>>
  /\ UNCHANGED <<cloud, ai>>

\* handleMonteCarlo after the loop: the price, setSimResult and the success entry, or
\* the catch branch; then finally.
McFinish ==
  /\ mcpc = "finish"
  /\ IF TryBlockThrows(run.cfg)
     THEN /\ SetLogState(AddLog(LogState, Msg("SIM: ENGINE STALL.", NoArg), "error",
                                [t |-> "error", msg |-> "err.message"]))
          /\ UNCHANGED simResult
          /\ last' = [outcome |-> "error", cfg |-> run.cfg, draws |-> run.draws,
                      payoffs |-> run.payoffs]
     ELSE LET price == Price(run.cfg, run.sum)
          IN /\ simResult' = NextSimResult(simResult, price)
             /\ SetLogState(AddLog(LogState, Msg("SIM: STOCHASTIC CONVERGENCE ACHIEVED.", NoArg),
                                   "success", [t |-> "price", price |-> price]))
             /\ last' = [outcome |-> "ok", cfg |-> run.cfg, draws |-> run.draws,
                         payoffs |-> run.payoffs]
  /\ appState' = FinallyAppState
  /\ mcpc' = "idle"
  /\ run' = NoRun
  /\ UNCHANGED <<simConfig, chatHistory, vfs, stream, isScanning, live, pend, ops>>
  /\ UNCHANGED <<cloud, ai>>

\* onClick of Flush_Buffer: setLogs([])
FlushLogs ==
  /\ Dispatchable
  /\ logs # <<>>
  /\ logs' = <<>>
  /\ UNCHANGED <<appState, simConfig, simResult, errors, chatHistory, vfs, stream,
                 isScanning, live, sent, pend, mcpc, run, last, ops>>
  /\ UNCHANGED <<cloud, ai>>

---------------------------------------------------------------------------
(* The scanner                                                             *)

\* initScannerStream up to its await of getDisplayMedia, after the log state ls.
BeginScanner(ls) ==
  /\ SetLogState(AddLog(ls, Msg("SYSTEM: REQUESTING SPATIAL INTERCEPT PERMISSIONS...", NoArg),
                        "info", NoArg))
  /\ pend' = [pend EXCEPT !.media = @ + 1]
  /\ ops' = [ops EXCEPT !.cmds = @ + 1]

\* onClick of the scanner buttons
ScannerClick ==
  /\ Dispatchable
  /\ CanInvoke
  /\ BeginScanner(LogState)
  /\ UNCHANGED <<appState, simConfig, simResult, chatHistory, vfs, stream, isScanning, live,
                 mcpc, run, last>>
  /\ UNCHANGED <<cloud, ai>>

\* initScannerStream after getDisplayMedia settles: the stream is granted or denied.
MediaSettled ==
  /\ Dispatchable
  /\ pend.media > 0
  /\ pend' = [pend EXCEPT !.media = @ - 1]
  /\ \E granted \in BOOLEAN :
       IF granted
       THEN /\ stream' = ops.granted + 1
            /\ live' = live \cup {ops.granted + 1}
            /\ ops' = [ops EXCEPT !.granted = @ + 1]
            /\ SetLogState(AddLog(LogState, Msg("SYSTEM: EXTERNAL SIGNAL SYNCHRONIZED.", NoArg),
                                  "success", NoArg))
       ELSE /\ SetLogState(AddLog(LogState, Msg("SYSTEM: PERMISSION DENIED BY KERNEL.", NoArg),
                                  "error", [t |-> "error", msg |-> "err.message"]))
            /\ UNCHANGED <<stream, live, ops>>
  /\ UNCHANGED <<appState, simConfig, simResult, chatHistory, vfs, isScanning, mcpc, run, last>>
  /\ UNCHANGED <<cloud, ai>>

\* onended of a granted stream's video track
TrackEnded ==
  /\ Dispatchable
  /\ \E id \in live : live' = live \ {id}
  /\ stream' = 0
  /\ SetLogState(AddLog(LogState, Msg("SYSTEM: EXTERNAL SIGNAL LOST.", NoArg), "warn", NoArg))
  /\ UNCHANGED <<appState, simConfig, simResult, chatHistory, vfs, isScanning, pend, mcpc,
                 run, last, ops>>
  /\ UNCHANGED <<cloud, ai>>

\* A button rendered whenever there is a stream.
ButtonShownWhileScanning == stream # 0

\* {!isScanning && stream && (<button onClick={handleCaptureAndAnalyze}> ...)}
ButtonShown == ~isScanning /\ stream # 0

\* handleCaptureAndAnalyze up to its await of analyzeContent, or to its end when the
\* stream is missing or the canvas gives no context.
CaptureAndAnalyze ==
  IF stream = 0
  THEN /\ SetLogState(AddLog(LogState, Msg("SCANNER: SOURCE STREAM MISSING.", NoArg),
                             "error", NoArg))
       /\ ops' = [ops EXCEPT !.cmds = @ + 1, !.captures = @ + 1, !.capture = "nostream"]
       /\ UNCHANGED <<appState, isScanning, pend>>
  ELSE LET ls1 == AddLog(LogState, Msg("SCANNER: FREEZING SPATIAL BUFFER...", NoArg),
                         "info", NoArg)
       IN \E ctx \in BOOLEAN :
            IF ctx
            THEN /\ SetLogState(AddLog(ls1, Msg("SCANNER: UPLOADING TO NEURAL BRIDGE...", NoArg),
                                       "info", NoArg))
                 /\ ops' = [ops EXCEPT !.cmds = @ + 1, !.captures = @ + 1, !.capture = "sent"]
                 /\ appState' = "ANALYZING"
                 /\ isScanning' = TRUE
                 /\ pend' = [pend EXCEPT !.scan = @ + 1]
            ELSE /\ SetLogState(AddLog(ls1, Msg("SCANNER: BUFFER PROCESSING ERROR.", NoArg),
                                       "error", [t |-> "error", msg |-> "err.message"]))
                 /\ ops' = [ops EXCEPT !.cmds = @ + 1, !.captures = @ + 1, !.capture = "nocontext"]
                 /\ appState' = "IDLE"
                 /\ isScanning' = FALSE
                 /\ UNCHANGED pend

\* onClick of SYNC_VIEWPORT_AUDIT
CaptureClick ==
  /\ Dispatchable
  /\ CanInvoke
  /\ ButtonShown
  /\ CaptureAndAnalyze
  /\ UNCHANGED <<simConfig, simResult, chatHistory, vfs, stream, live, mcpc, run, last>>
  /\ UNCHANGED <<cloud, ai>>

\* handleCaptureAndAnalyze called while stream is null.  The button that calls it is
\* not rendered then, so only a call from elsewhere reaches its first branch.
CaptureNoStream ==
  /\ Dispatchable
  /\ CanInvoke
  /\ stream = 0
  /\ CaptureAndAnalyze
  /\ UNCHANGED <<simConfig, simResult, chatHistory, vfs, stream, live, mcpc, run, last>>
  /\ UNCHANGED <<cloud, ai>>

\* handleCaptureAndAnalyze after analyzeContent settles
ScanSettled ==
  /\ Dispatchable
  /\ pend.scan > 0
  /\ pend' = [pend EXCEPT !.scan = @ - 1]
  /\ \E ok \in BOOLEAN :
       IF ok
       THEN /\ SetLogState(AddLog(LogState, Msg("SCANNER: ANALYSIS COMPLETE.", NoArg),
                                  "success", NoArg))
            /\ chatHistory' = Append(chatHistory,
                 [role |-> "assistant", content |-> Msg("[SPATIAL INTERCEPT AUDIT]", "audit")])
       ELSE /\ SetLogState(AddLog(LogState, Msg("SCANNER: BUFFER PROCESSING ERROR.", NoArg),
                                  "error", [t |-> "error", msg |-> "err.message"]))
            /\ UNCHANGED chatHistory
  /\ isScanning' = FALSE
  /\ appState' = "IDLE"
  /\ UNCHANGED <<simConfig, simResult, vfs, stream, live, mcpc, run, last, ops>>
  /\ UNCHANGED <<cloud, ai>>

---------------------------------------------------------------------------
(* The master build                                                        *)

\* f.path.split('/').pop() || f.path
NameOf(path) == IF path[Len(path)] # "" THEN <<path[Len(path)]>> ELSE path

\* The index of the first child whose path is p, or 0: children.find(node => node.path === f.path)
RECURSIVE FindPath(_, _, _)
FindPath(children, p, k) ==
  IF k > Len(children) THEN 0
  ELSE IF children[k].path = p THEN k
  ELSE FindPath(children, p, k + 1)

\* A forEach body that pushes without looking for the path.
PutFileAlwaysPush(children, f) ==
  Append(children, [name |-> NameOf(f.path), path |-> f.path, type |-> "file",
                    content |-> f.content])

\* The body of parsed.files.forEach for one file f.
PutFile(children, f) ==
  LET k == FindPath(children, f.path, 1)
  IN IF k # 0 THEN [children EXCEPT ![k].content = f.content]
     ELSE Append(children, [name |-> NameOf(f.path), path |-> f.path, type |-> "file",
                            content |-> f.content])

\* parsed.files.forEach(...) over the root's children.
RECURSIVE PutFiles(_, _)
PutFiles(children, files) ==
  IF files = <<>> THEN children
  ELSE PutFiles(PutFile(children, Head(files)), Tail(files))

\* parsed.telemetry_logs?.forEach(l => addLog(`KERN: ${l}`, "success"))
RECURSIVE AddTelemetry(_, _)
AddTelemetry(ls, lines) ==
  IF lines = <<>> THEN ls
  ELSE AddTelemetry(AddLog(ls, Msg("KERN: ", Str(Head(lines))), "success", NoArg), Tail(lines))

\* A handleMasterBuild that does not announce itself in appState.
BeginBuildQuiet(ls) ==
  /\ appState' = appState
  /\ SetLogState(AddLog(ls, Msg("BUILDER: DEPLOYING CLUSTER...", Str("NEXT_GEN")), "info", NoArg))
  /\ pend' = [pend EXCEPT !.build = @ + 1]
  /\ ops' = [ops EXCEPT !.cmds = @ + 1]

\* handleMasterBuild up to its await of runCodingPilot, after the log state ls.
BeginBuild(ls) ==
  /\ appState' = "ORCHESTRATING"
  /\ SetLogState(AddLog(ls, Msg("BUILDER: DEPLOYING CLUSTER...", Str("NEXT_GEN")), "info", NoArg))
  /\ pend' = [pend EXCEPT !.build = @ + 1]
  /\ ops' = [ops EXCEPT !.cmds = @ + 1]

\* onClick of the master build button
BuildClick ==
  /\ Dispatchable
  /\ CanInvoke
  /\ BeginBuild(LogState)
  /\ UNCHANGED <<simConfig, simResult, chatHistory, vfs, stream, isScanning, live, mcpc,
                 run, last>>
  /\ UNCHANGED <<cloud, ai>>

\* A try block that only a rejected request leaves for catch.
BuildFailsOnReject(reply) == reply.kind = "reject"

\* The try block of handleMasterBuild ends in catch: the awaited request rejected, or
\* JSON.parse threw on its text.
BuildFails(reply) == reply.kind \in {"reject", "badjson"}

\* handleMasterBuild after runCodingPilot settles
BuildSettled ==
  /\ Dispatchable
  /\ pend.build > 0
  /\ pend' = [pend EXCEPT !.build = @ - 1]
  /\ \E reply \in BuildReplies :
       /\ ops' = [ops EXCEPT !.built = reply.kind]
       /\ IF BuildFails(reply)
          THEN /\ SetLogState(AddLog(LogState, Msg("BUILDER: ORCHESTRATION FAILED.", NoArg),
                                     "error", [t |-> "error", msg |-> "err.message"]))
               /\ UNCHANGED vfs
          ELSE IF reply.kind = "files"
          THEN /\ vfs' = PutFiles(vfs, reply.files)
               /\ SetLogState(AddTelemetry(LogState, reply.telemetry))
          ELSE UNCHANGED <<vfs, logs, errors, sent>>
  /\ appState' = "IDLE"
  /\ UNCHANGED <<simConfig, simResult, chatHistory, stream, isScanning, live, mcpc, run,
                 last>>
  /\ UNCHANGED <<cloud, ai>>

---------------------------------------------------------------------------
(* Directives                                                              *)

\* setChatHistory(prev => [...prev, { role: 'user', content: `> ${command}` }])
UserSaid(kind) == Append(chatHistory, [role |-> "user", content |-> Msg("> ", kind)])

\* executeCommand on a blank directive: it returns at once.
CmdBlank ==
  /\ Dispatchable
  /\ UNCHANGED vars

\* executeCommand on "build ...": handleMasterBuild
CmdBuild ==
  /\ Dispatchable
  /\ CanInvoke
  /\ chatHistory' = UserSaid("build")
  /\ BeginBuild(LogState)
  /\ UNCHANGED <<simConfig, simResult, vfs, stream, isScanning, live, mcpc, run, last>>
  /\ UNCHANGED <<cloud, ai>>

\* executeCommand on a directive that includes "simulate": handleMonteCarlo
CmdSimulate ==
  /\ Dispatchable
  /\ CanRun
  /\ Explorable(simConfig)
  /\ chatHistory' = UserSaid("simulate")
  /\ BeginRun(LogState)
  /\ UNCHANGED <<simConfig, simResult, vfs, stream, isScanning, live, pend, last>>
  /\ UNCHANGED <<cloud, ai>>

\* executeCommand on a directive that includes "scan": initScannerStream
CmdScan ==
  /\ Dispatchable
  /\ CanInvoke
  /\ chatHistory' = UserSaid("scan")
  /\ BeginScanner(LogState)
  /\ UNCHANGED <<appState, simConfig, simResult, vfs, stream, isScanning, live, mcpc, run, last>>
  /\ UNCHANGED <<cloud, ai>>

\* executeCommand on any other directive, up to its await of solveError
CmdOther ==
  /\ Dispatchable
  /\ CanInvoke
  /\ chatHistory' = UserSaid("other")
  /\ appState' = "ANALYZING"
  /\ pend' = [pend EXCEPT !.solve = @ + 1]
  /\ ops' = [ops EXCEPT !.cmds = @ + 1]
  /\ UNCHANGED <<simConfig, simResult, logs, errors, vfs, stream, isScanning, live, sent,
                 mcpc, run, last>>
  /\ UNCHANGED <<cloud, ai>>

\* executeCommand after solveError settles; a rejection ends the handler there.
SolveSettled ==
  /\ Dispatchable
  /\ pend.solve > 0
  /\ pend' = [pend EXCEPT !.solve = @ - 1]
  /\ \E ok \in BOOLEAN :
       IF ok
       THEN /\ chatHistory' = Append(chatHistory,
                 [role |-> "assistant", content |-> Msg("", "r.text")])
            /\ appState' = "IDLE"
       ELSE UNCHANGED <<chatHistory, appState>>
  /\ UNCHANGED <<simConfig, simResult, logs, errors, vfs, stream, isScanning, live, sent,
                 mcpc, run, last, ops>>
  /\ UNCHANGED <<cloud, ai>>

Next ==
  \/ EditIterations
  \/ EditSeed
  \/ McClick
  \/ McDrawU
  \/ McDrawV
  \/ McFinish
  \/ FlushLogs
  \/ ScannerClick
  \/ MediaSettled
  \/ TrackEnded
  \/ CaptureClick
  \/ ScanSettled
  \/ BuildClick
  \/ BuildSettled
  \/ CmdBlank
  \/ CmdBuild
  \/ CmdSimulate
  \/ CmdScan
  \/ CmdOther
  \/ SolveSettled

Spec == Init /\ [][Next]_vars

NextPricer ==
  \/ EditSeed
  \/ McClick
  \/ McDrawU
  \/ McDrawV
  \/ McFinish

SpecPricer == InitPricer /\ [][NextPricer]_vars

\* The simulation panel when the handler's thread keeps running (a started run is
\* not suspended) and Math.random() does not return 0 for ever: weak fairness of the
\* step of McDrawU that draws a nonzero u, of the step of McDrawV that draws a nonzero
\* v, and of McFinish.  Each of the last two steps is enabled exactly while mcpc is
\* "drawV" or "finish" and is the only step that changes that position, so its weak
\* fairness is the formula []<>(mcpc # position), and is written so.
\* The scanner, with handleCaptureAndAnalyze also called without its button, and a
\* free-text directive that may overlap it.
NextScanner ==
  \/ ScannerClick
  \/ MediaSettled
  \/ TrackEnded
  \/ CaptureClick
  \/ CaptureNoStream
  \/ ScanSettled
  \/ CmdOther
  \/ SolveSettled

\* The log state after initScannerStream ran from the first render and was granted.
GrantedLogState ==
  AddLog(AddLog([logs |-> <<>>, errors |-> <<>>, sent |-> {}],
                Msg("SYSTEM: REQUESTING SPATIAL INTERCEPT PERMISSIONS...", NoArg), "info", NoArg),
         Msg("SYSTEM: EXTERNAL SIGNAL SYNCHRONIZED.", NoArg), "success", NoArg)

\* The state once the scanner has been started and granted its first stream.
InitScanner ==
  /\ simConfig = DefaultConfig
  /\ appState = "IDLE"
  /\ simResult = Null
  /\ logs = GrantedLogState.logs
  /\ errors = GrantedLogState.errors
  /\ sent = GrantedLogState.sent
  /\ chatHistory = <<>>
  /\ vfs = <<>>
  /\ stream = 1
  /\ isScanning = FALSE
  /\ live = {1}
  /\ pend = [media |-> 0, scan |-> 0, build |-> 0, solve |-> 0]
  /\ mcpc = "idle"
  /\ run = NoRun
  /\ last = NoLast
  /\ ops = [runs |-> 0, cmds |-> 0, granted |-> 1, built |-> "none", capture |-> "none",
            captures |-> 0]
  /\ cloud = CloudInit
  /\ ai = AiInit

SpecScanner == InitScanner /\ [][NextScanner]_vars

SpecPricerFair ==
  /\ SpecPricer
  /\ WF_vars(McDrawU /\ mcpc' = "drawV")
  /\ []<>(mcpc # "drawV")
  /\ []<>(mcpc # "finish")

---------------------------------------------------------------------------
(* The persistence client (src/supabase.ts)                                *)

\* What `await supabase.from(...)...` gives a write: { error: null }, { error } or a
\* thrown network error.
WriteReplies ==
  { [kind |-> "ok", code |-> "", data |-> Null],
    [kind |-> "error", code |-> "42P01", data |-> Null],
    [kind |-> "throw", code |-> "", data |-> Null] }

\* pilot_config of a stored row that has one.
StoredPilotConfig == [web3Enabled |-> TRUE, deploymentTarget |-> "vercel", backend |-> "python"]

\* A file node of the second component's tree.
StoredFile == [name |-> <<"a.ts">>, path |-> <<"src", "a.ts">>, type |-> "file", content |-> "x"]

\* A string of a JSON document.
JsonString(v) == [t |-> "string", v |-> v]

\* The JSON document the client sends for a tree: each node's properties.
JsonOfVfs(nodes) ==
  [i \in 1..Len(nodes) |->
     [name |-> JsonString(nodes[i].name), path |-> JsonString(nodes[i].path),
      type |-> JsonString(nodes[i].type), content |-> JsonString(nodes[i].content)]]

\* The tree the client makes of a stored JSON document.
VfsOfJson(doc) ==
  [i \in 1..Len(doc) |->
     [name |-> doc[i].name.v, path |-> doc[i].path.v, type |-> doc[i].type.v,
      content |-> doc[i].content.v]]

\* The rows of app_storage a session can be loaded from.
SessionRows ==
  { [t |-> "row", vfs_json |-> v, pilot_config |-> c] :
      v \in {Null, Json(JsonOfVfs(<<StoredFile>>))}, c \in {Null, Json(StoredPilotConfig)} }

\* The table before the page is first opened: no row, or one of the rows.
StoredSessions ==
  {NoRow} \cup {[exists |-> TRUE, vfs_json |-> row.vfs_json, pilot_config |-> row.pilot_config] :
                  row \in SessionRows}

\* What `await supabase.from('app_storage').select('*').eq(...).single()` gives when
\* the table is db: the row; no row (code PGRST116, data null); another error; a
\* thrown network error.
FetchReplies(db) ==
  { IF db.exists
    THEN [kind |-> "ok", code |-> "",
          data |-> [t |-> "row", vfs_json |-> db.vfs_json, pilot_config |-> db.pilot_config]]
    ELSE [kind |-> "error", code |-> "PGRST116", data |-> Null],
    [kind |-> "error", code |-> "42P01", data |-> Null],
    [kind |-> "throw", code |-> "", data |-> Null] }

\* The row after .upsert({ id: 'default_session', vfs_json: vfs, updated_at }, {
\* onConflict: 'id' }) succeeded: the columns named are written, the others kept.
Upsert(db, tree) ==
  [exists |-> TRUE, vfs_json |-> Json(JsonOfVfs(tree)), pilot_config |-> db.pilot_config]

\* persistAppState: the promise it returns, given what its awaited request gave.
PersistAppState(reply) ==
  IF reply.kind = "throw" THEN Resolved(Undefined)        \* catch: console.error
  ELSE IF reply.kind = "error" THEN Resolved(Undefined)   \* console.warn, console.error
  ELSE Resolved(Undefined)

\* persistLog
PersistLog(reply) ==
  IF reply.kind = "throw" THEN Resolved(Undefined)        \* catch: silent
  ELSE Resolved(Undefined)

\* persistChat
PersistChat(reply) ==
  IF reply.kind = "throw" THEN Resolved(Undefined)        \* catch: console.error
  ELSE IF reply.kind = "error" THEN Resolved(Undefined)   \* console.error
  ELSE Resolved(Undefined)

\* A fetchLatestSession without its try/catch.
FetchLatestSessionUncaught(reply) ==
  IF reply.kind = "throw" THEN Rejected
  ELSE IF reply.kind = "error" /\ reply.code # "PGRST116" THEN Resolved(Null)
  ELSE Resolved(reply.data)

\* fetchLatestSession
FetchLatestSession(reply) ==
  IF reply.kind = "throw" THEN Resolved(Null)             \* catch: return null
  ELSE IF reply.kind = "error" /\ reply.code # "PGRST116" THEN Resolved(Null)
  ELSE Resolved(reply.data)

\* The record of a settled call.
ResultOf(fn, reply, result) ==
  [fn |-> fn, reply |-> reply.kind, code |-> reply.code, data |-> reply.data,
   result |-> result]

---------------------------------------------------------------------------
(* The second App component: session load, debounced session write and the *)
(* create/script directive                                                 *)

\* setTimeout(..., 2000)
DebounceMs == 2000

\* The step of the clock.
TickMs == DebounceMs \div 2

\* The clock stops after this many steps.
MaxTicks == 5

\* create/script directives per behaviour.
MaxCreates == 1

\* A cleanup that clears nothing.
ClearNothing(timers, id) == timers

\* clearTimeout(id)
ClearTimeout(timers, id) == {t \in timers : t.id # id}

\* The persistence effect's body in the component state c: nothing but the flag on the
\* initial mount, afterwards a timeout of 2000 ms.
PersistenceEffect(c) ==
  IF c.isInitialMount
  THEN [c EXCEPT !.isInitialMount = FALSE, !.timer = 0]
  ELSE LET id == c.timerIds + 1
       IN [c EXCEPT !.timers = @ \cup {[id |-> id, due |-> c.now + DebounceMs]},
                    !.timer = id,
                    !.timerIds = id]

\* The render after vfs or pilotConfig changed: the cleanup of the last effect run
\* (return () => clearTimeout(timer)), then the effect again.
Rerender(c) ==
  PersistenceEffect([c EXCEPT !.timers = ClearTimeout(@, c.timer),
                              !.changes = @ + 1,
                              !.changedAt = c.now])

\* The first render's effects: initSession up to its await, then the persistence effect.
Mount ==
  /\ ~cloud.mounted
  /\ cloud' = PersistenceEffect([cloud EXCEPT !.mounted = TRUE,
                                              !.cloudStatus = "syncing",
                                              !.calls.fetchLatestSession = @ + 1])
  /\ UNCHANGED <<appVars, ai>>

\* Time passes.
Tick ==
  /\ cloud.mounted
  /\ cloud.now < MaxTicks * TickMs
  /\ cloud' = [cloud EXCEPT !.now = @ + TickMs]
  /\ UNCHANGED <<appVars, ai>>

\* initSession after fetchLatestSession settles.
FetchSettled ==
  /\ cloud.calls.fetchLatestSession > 0
  /\ \E reply \in FetchReplies(cloud.db) :
       LET result == FetchLatestSession(reply)
           c0 == [cloud EXCEPT !.calls.fetchLatestSession = @ - 1,
                               !.lastResult = ResultOf("fetchLatestSession", reply, result),
                               !.lastSync = IF reply.kind = "ok" \/ reply.code = "PGRST116"
                                            THEN "loaded" ELSE "loadFailed"]
       IN IF result.settled = "rejected"
          THEN cloud' = [c0 EXCEPT !.cloudStatus = "error"]
          ELSE LET session == result.value
                   setVfs == Truthy(session) /\ Truthy(session.vfs_json)
                   setPilot == Truthy(session) /\ Truthy(session.pilot_config)
                   c1 == [c0 EXCEPT !.cloudStatus = "connected",
                                    !.vfs = IF setVfs THEN VfsOfJson(session.vfs_json.v) ELSE @,
                                    !.pilotConfig = IF setPilot THEN session.pilot_config.v ELSE @]
               IN cloud' = IF setVfs \/ setPilot THEN Rerender(c1) ELSE c1
  /\ UNCHANGED <<appVars, ai>>

\* The timeout's callback: setCloudStatus('syncing'); persistAppState(vfs, pilotConfig)
TimerFires ==
  /\ \E t \in cloud.timers :
       /\ cloud.now >= t.due
       /\ cloud' = [cloud EXCEPT !.timers = @ \ {t},
                                 !.cloudStatus = "syncing",
                                 !.calls.persistAppState = @ + 1,
                                 !.writes = @ + 1,
                                 !.inflight = Append(@, [vfs |-> cloud.vfs,
                                                         pilotConfig |-> cloud.pilotConfig]),
                                 !.lastSync = "none"]
  /\ UNCHANGED <<appVars, ai>>

\* .then(() => setCloudStatus('connected')).catch(() => setCloudStatus('error'))
PersistSettled ==
  /\ cloud.calls.persistAppState > 0
  /\ \E reply \in WriteReplies :
       LET result == PersistAppState(reply)
           args == Head(cloud.inflight)
       IN cloud' = [cloud EXCEPT !.calls.persistAppState = @ - 1,
                                 !.inflight = Tail(@),
                                 !.db = IF reply.kind = "ok" THEN Upsert(@, args.vfs) ELSE @,
                                 !.saved = IF reply.kind = "ok"
                                           THEN [set |-> TRUE, vfs |-> args.vfs,
                                                 pilotConfig |-> args.pilotConfig]
                                           ELSE @,
                                 !.lastResult = ResultOf("persistAppState", reply, result),
                                 !.lastSync = IF reply.kind = "ok" THEN "written" ELSE "writeFailed",
                                 !.cloudStatus = IF result.settled = "resolved"
                                                 THEN "connected" ELSE "error"]
  /\ UNCHANGED <<appVars, ai>>

\* A persistLog call settles; addLog dropped its promise.
LogSettled ==
  /\ cloud.calls.persistLog > 0
  /\ \E reply \in WriteReplies :
       cloud' = [cloud EXCEPT !.calls.persistLog = @ - 1,
                              !.lastResult = ResultOf("persistLog", reply, PersistLog(reply))]
  /\ UNCHANGED <<appVars, ai>>

\* A persistChat call settles; executeCommand dropped its promise.
ChatSettled ==
  /\ cloud.calls.persistChat > 0
  /\ \E reply \in WriteReplies :
       cloud' = [cloud EXCEPT !.calls.persistChat = @ - 1,
                              !.lastResult = ResultOf("persistChat", reply, PersistChat(reply))]
  /\ UNCHANGED <<appVars, ai>>

\* executeCommand of the second component on a create/script directive, up to the
\* request of runCodingPilot: persistChat(userMsg), setAppState(CODING), addLog.
CreateCommand ==
  /\ cloud.mounted
  /\ cloud.creates < MaxCreates
  /\ cloud' = [cloud EXCEPT !.creates = @ + 1,
                            !.appState = "CODING",
                            !.calls.persistChat = @ + 1,
                            !.calls.persistLog = @ + 1,
                            !.calls.runCodingPilot = @ + 1]
  /\ UNCHANGED <<appVars, ai>>

\* nv[0].children?.push({ name, path, type: 'file', content }) for each file.
RECURSIVE PushFiles(_, _)
PushFiles(children, files) ==
  IF files = <<>> THEN children
  ELSE PushFiles(Append(children, [name |-> NameOf(Head(files).path), path |-> Head(files).path,
                                   type |-> "file", content |-> Head(files).content]),
                 Tail(files))

\* The .then of runCodingPilot: JSON.parse(res), the files logged and pushed, IDLE.  A
\* rejection, or text that is not JSON, ends the chain there: it has no .catch.
CreateSettled ==
  /\ cloud.calls.runCodingPilot > 0
  /\ \E reply \in BuildReplies :
       LET c0 == [cloud EXCEPT !.calls.runCodingPilot = @ - 1]
       IN IF reply.kind \in {"reject", "badjson"}
          THEN cloud' = c0
          ELSE IF reply.kind = "files"
          THEN cloud' = Rerender([c0 EXCEPT !.calls.persistLog = @ + Len(reply.files),
                                            !.vfs = PushFiles(@, reply.files),
                                            !.appState = "IDLE"])
          ELSE cloud' = [c0 EXCEPT !.appState = "IDLE"]
  /\ UNCHANGED <<appVars, ai>>

NextCloud ==
  \/ Mount
  \/ Tick
  \/ FetchSettled
  \/ TimerFires
  \/ PersistSettled
  \/ LogSettled
  \/ ChatSettled
  \/ CreateCommand
  \/ CreateSettled

\* The second component opened on a table that holds no row or one of the rows.
InitCloud ==
  /\ simConfig = DefaultConfig
  /\ InitApp
  /\ cloud \in {[CloudInit EXCEPT !.db = d] : d \in StoredSessions}

SpecCloud == InitCloud /\ [][NextCloud]_vars

\* Fresh starts after the first, per behaviour.
MaxRestarts == 1

\* The page is opened afresh: the component starts over, the table stays.
Restart ==
  /\ cloud.mounted
  /\ cloud.inflight = <<>>
  /\ cloud.starts < MaxRestarts
  /\ cloud' = [CloudInit EXCEPT !.db = cloud.db,
                                !.now = cloud.now,
                                !.saved = cloud.saved,
                                !.starts = cloud.starts + 1]
  /\ UNCHANGED <<appVars, ai>>

NextSession ==
  \/ NextCloud
  \/ Restart

SpecSession == InitCloud /\ [][NextSession]_vars

---------------------------------------------------------------------------
(* The AI layer's functions that parse JSON (src/geminiService.ts)         *)

\* The pieces a response text is made of: a number, null, the braces, a key with its
\* colon, and a word that is no JSON.
Tokens == {"1", "null", "{", "}", "\"k\":", "oops"}

\* The longest response text, in pieces.
MaxText == 4

\* The response texts: "" is the empty one.
Texts == UNION {[1..n -> Tokens] : n \in 0..MaxText}

\* What `await ai.models.generateContent(...)` gives: a rejection; a response without
\* text; a response with text; each response with or without grounding chunks.
AiReplies ==
  {[kind |-> "reject", text |-> <<>>, chunks |-> <<>>]}
    \cup {[kind |-> "notext", text |-> <<>>, chunks |-> c] : c \in {<<>>, <<"chunk">>}}
    \cup {[kind |-> "text", text |-> t, chunks |-> c] : t \in Texts, c \in {<<>>, <<"chunk">>}}

\* JSON values: 1, null, {} and {"k": value}.
JsonNumber == [t |-> "number", has |-> FALSE, k |-> Undefined]
JsonNull == [t |-> "null", has |-> FALSE, k |-> Undefined]
EmptyObject == [t |-> "object", has |-> FALSE, k |-> Undefined]
ObjectWith(value) == [t |-> "object", has |-> TRUE, k |-> value]

\* The parser failed at this point.
SyntaxError == [ok |-> FALSE, value |-> Undefined, rest |-> <<>>]

\* One JSON value read from the front of the pieces ts, and the pieces after it.
RECURSIVE ParseValue(_)
ParseValue(ts) ==
  IF ts = <<>> THEN SyntaxError
  ELSE IF Head(ts) = "1" THEN [ok |-> TRUE, value |-> JsonNumber, rest |-> Tail(ts)]
  ELSE IF Head(ts) = "null" THEN [ok |-> TRUE, value |-> JsonNull, rest |-> Tail(ts)]
  ELSE IF Head(ts) = "{" /\ Len(ts) >= 2
  THEN IF ts[2] = "}"
       THEN [ok |-> TRUE, value |-> EmptyObject, rest |-> SubSeq(ts, 3, Len(ts))]
       ELSE IF ts[2] = "\"k\":"
       THEN LET inner == ParseValue(SubSeq(ts, 3, Len(ts)))
            IN IF inner.ok /\ inner.rest # <<>> /\ Head(inner.rest) = "}"
               THEN [ok |-> TRUE, value |-> ObjectWith(inner.value), rest |-> Tail(inner.rest)]
               ELSE SyntaxError
       ELSE SyntaxError
  ELSE SyntaxError

\* JSON.parse(text): the value, or a SyntaxError thrown.
JsonParse(ts) ==
  LET r == ParseValue(ts)
  IN IF r.ok /\ r.rest = <<>> THEN [ok |-> TRUE, value |-> r.value]
     ELSE [ok |-> FALSE, value |-> Undefined]

\* A response.text used as it comes.
TextAsIs(reply) == IF reply.kind = "notext" THEN <<"undefined">> ELSE reply.text

\* response.text || "{}"
TextOrEmptyObject(reply) ==
  IF reply.kind = "notext" \/ reply.text = <<>> THEN <<"{", "}">> ELSE reply.text

\* { summary: "Failed to generate report.", detectedErrors: [], roadmap: "", suggestedScripts: [] }
ReportFallback ==
  [t |-> "object", summary |-> "Failed to generate report.", detectedErrors |-> <<>>,
   roadmap |-> "", suggestedScripts |-> <<>>]

\* { steps: [], goal: "Failed to parse automation plan." }
AutomationFallback == [t |-> "object", steps |-> <<>>, goal |-> "Failed to parse automation plan."]

\* { status: "error", logs: [{ timestamp: new Date().toLocaleTimeString(),
\*   message: "Simulation error.", type: "error" }] }
SimulationFallback ==
  [t |-> "object", status |-> "error",
   logs |-> <<[timestamp |-> "now", message |-> "Simulation error.", type |-> "error"]>>]

\* { updatedFiles: [], explanation: "Fix engine failure.", sources: [] }
FixFallback ==
  [t |-> "object", updatedFiles |-> <<>>, explanation |-> "Fix engine failure.",
   sources |-> <<>>]

\* { ...parsed }: the own properties of an object, none of a number or of null.
Spread(value) == IF value.t = "object" THEN value ELSE EmptyObject

\* { ...parsed, sources: response.candidates?.[0]?.groundingMetadata?.groundingChunks || [] }
FixOf(parsed, chunks) == [t |-> "object", parsed |-> Spread(parsed), sources |-> chunks]

\* const text = response.text || "{}"; try { return JSON.parse(text); } catch (e) {
\* return <fallback>; } after the awaited request, which is outside the try.
ParseOr(reply, fallback) ==
  IF reply.kind = "reject" THEN Rejected
  ELSE LET parsed == JsonParse(TextOrEmptyObject(reply))
       IN IF parsed.ok THEN Resolved(parsed.value) ELSE Resolved(fallback)

\* generateErrorReport
GenerateErrorReport(reply) == ParseOr(reply, ReportFallback)

\* runWebAutomation
RunWebAutomation(reply) == ParseOr(reply, AutomationFallback)

\* runSimulation
RunSimulation(reply) == ParseOr(reply, SimulationFallback)

\* autonomousFix
AutonomousFix(reply) ==
  IF reply.kind = "reject" THEN Rejected
  ELSE LET parsed == JsonParse(TextOrEmptyObject(reply))
       IN IF parsed.ok THEN Resolved(FixOf(parsed.value, reply.chunks))
          ELSE Resolved(FixFallback)

\* The functions keep nothing between calls: one call is studied per behaviour.
NoCallYet == ai.fn = "none"

\* A call of generateErrorReport settles.
CallGenerateErrorReport ==
  /\ NoCallYet
  /\ \E reply \in AiReplies :
       ai' = [fn |-> "generateErrorReport", reply |-> reply, result |-> GenerateErrorReport(reply)]
  /\ UNCHANGED <<appVars, cloud>>

\* A call of runWebAutomation settles.
CallRunWebAutomation ==
  /\ NoCallYet
  /\ \E reply \in AiReplies :
       ai' = [fn |-> "runWebAutomation", reply |-> reply, result |-> RunWebAutomation(reply)]
  /\ UNCHANGED <<appVars, cloud>>

\* A call of runSimulation settles.
CallRunSimulation ==
  /\ NoCallYet
  /\ \E reply \in AiReplies :
       ai' = [fn |-> "runSimulation", reply |-> reply, result |-> RunSimulation(reply)]
  /\ UNCHANGED <<appVars, cloud>>

\* A call of autonomousFix settles.
CallAutonomousFix ==
  /\ NoCallYet
  /\ \E reply \in AiReplies :
       ai' = [fn |-> "autonomousFix", reply |-> reply, result |-> AutonomousFix(reply)]
  /\ UNCHANGED <<appVars, cloud>>

NextAi ==
  \/ CallGenerateErrorReport
  \/ CallRunWebAutomation
  \/ CallRunSimulation
  \/ CallAutonomousFix

SpecAi == Init /\ [][NextAi]_vars

---------------------------------------------------------------------------
(* The log buffer under many addLog calls                                  *)

\* addLog calls per behaviour: enough to pass the cap.
MaxLogs == 52

\* Error-level entries per behaviour.
MaxErrorLogs == 1

\* The levels the calls are made with.
Levels == {"info", "error"}

\* What tells the n-th entry from the others (its id and timestamp).
Serial(n) == [t |-> "serial", v |-> n]

\* The addLog calls so far: each sent its own row to persistLog.
LogCalls == Cardinality(sent)

\* Some handler calls addLog(message, level).
AddLogCall ==
  /\ Dispatchable
  /\ LogCalls < MaxLogs
  /\ \E level \in Levels :
       /\ level = "error" => Len(errors) < MaxErrorLogs
       /\ SetLogState(AddLog(LogState, Msg("ENTRY", Serial(LogCalls + 1)), level, NoArg))
  /\ UNCHANGED <<appState, simConfig, simResult, chatHistory, vfs, stream, isScanning, live,
                 pend, mcpc, run, last, ops>>
  /\ UNCHANGED <<cloud, ai>>

NextLogs ==
  \/ AddLogCall
  \/ FlushLogs

SpecLogs == Init /\ [][NextLogs]_vars

---------------------------------------------------------------------------
(* Properties of the pricer and of the application                         *)

\* A run has ended; `last` records it.
Ended == last.outcome # "none"

\* a is an integer.
IsWhole(a) == IsFinite(a) /\ a.v % Scale = 0

\* The integer a whole iterations field asks for.
Trials(cfg) == cfg.iterations.v \div Scale

\* The payoffs added up from 0 in the order they were accumulated.
RECURSIVE SumOf(_)
SumOf(ps) ==
  IF ps = <<>> THEN Zero
  ELSE Add(SumOf(SubSeq(ps, 1, Len(ps) - 1)), ps[Len(ps)])

\* The sum of payoffs a run under cfg accumulates from the source values ds.
RECURSIVE SumFromDraws(_, _)
SumFromDraws(cfg, ds) ==
  IF ds = <<>> THEN Zero
  ELSE LET d == ds[Len(ds)]
           z == BoxMullerValue(RandomValue(cfg, d.xu), RandomValue(cfg, d.xv))
       IN Add(SumFromDraws(cfg, SubSeq(ds, 1, Len(ds) - 1)), Payoff(cfg.params, z))

\* The result a run under cfg stores when the source returns the values ds.
ResultFromDraws(cfg, ds) == SimResultOf(Price(cfg, SumFromDraws(cfg, ds)))

\* The number of entries of ls with the message text.
CountOf(ls, text) == Cardinality({k \in 1..Len(ls) : ls[k].message.text = text})

\* The runs that have ended so far.
RunsEnded == ops.runs - (IF mcpc = "idle" THEN 0 ELSE 1)

\* The pair boxMuller's return expression is evaluated on has no zero, and its
\* logarithm is finite.
NonzeroPair(d) == d.u # Zero /\ d.v # Zero /\ IsFinite(Log(d.u))

\* C1: boxMuller evaluates its logarithm and cosine only on nonzero u and v: each is
\* drawn again until it is nonzero, whatever the source returns, so log(0) is never
\* computed.  Every pair the return expression was evaluated on, in the running and
\* in the last ended run, is nonzero, and the first loop is left only with u # 0.
C1_NoLogOfZero ==
  /\ \A k \in 1..Len(run.draws) : NonzeroPair(run.draws[k])
  /\ \A k \in 1..Len(last.draws) : NonzeroPair(last.draws[k])
  /\ mcpc = "drawV" => run.u # Zero

\* A one-trial loop has ended, in which the source returned a zero that was drawn again.
C1_Witness == mcpc = "finish" /\ run.zero /\ Len(run.draws) = 1

\* The terminal price of the trial whose sampler call drew u and v, as the
\* specification writes it: S0 * exp((r - 0.5*sigma^2)*T + sigma*sqrt(T)*z).
C2_TerminalPrice(params, u, v) ==
  Mul(params.S0,
      Exp(Add(Mul(Sub(params.r, Mul(Half, Mul(params.sigma, params.sigma))), params.T),
              Mul(Mul(params.sigma, Sqrt(params.T)), BoxMullerValue(u, v)))))

\* C2: for every configuration with integer iterations >= 1, an ended run called the
\* sampler exactly `iterations` times and accumulated exactly `iterations` payoffs,
\* each max(ST - K, 0) for the terminal price ST of that trial's draw.
C2_TrialsAndPayoffs ==
  (Ended /\ IsWhole(last.cfg.iterations) /\ Trials(last.cfg) >= 1) =>
    /\ Len(last.draws) = Trials(last.cfg)
    /\ Len(last.payoffs) = Trials(last.cfg)
    /\ \A k \in 1..Len(last.payoffs) :
         last.payoffs[k] =
           Max(Sub(C2_TerminalPrice(last.cfg.params, last.draws[k].u, last.draws[k].v),
                   last.cfg.params.K), Zero)

\* A run of two trials has ended whose two payoffs differ.
C2_Witness ==
  /\ Ended
  /\ last.cfg.iterations = Fin(2 * Scale)
  /\ Len(last.payoffs) = 2
  /\ last.payoffs[1] # last.payoffs[2]

\* exp(-r*T) * (sum of the accumulated payoffs / iterations) of the last ended run.
C3_Price ==
  Mul(Exp(Mul(Neg(last.cfg.params.r), last.cfg.params.T)),
      Div(SumOf(last.payoffs), last.cfg.iterations))

\* C3: the price stored in the result of a run is exp(-r*T) times (the sum of the
\* accumulated payoffs divided by iterations), and the summary of the same result
\* embeds that same price rendered to 6 decimal places.
C3_PriceAndSummary ==
  Ended =>
    /\ simResult.t = "result"
    /\ simResult.results.option_price = C3_Price
    /\ simResult.summary = [text |-> "MC Price ~ ", fixed |-> ToFixed(C3_Price, 6)]

\* A run of two trials has ended with a positive finite price that has decimals.
C3_Witness ==
  /\ Ended
  /\ Len(last.payoffs) = 2
  /\ simResult.t = "result"
  /\ IsFinite(simResult.results.option_price)
  /\ simResult.results.option_price.v > 0
  /\ simResult.summary.fixed.frac # 0

\* C4: a run with iterations = 0 fails with an InvalidConfiguration error and does
\* not produce a NaN result.  (The code does not: the run ends in the success branch
\* with the price 0/0.)
C4_ZeroIterationsRejected ==
  (Ended /\ last.cfg.iterations = Zero) =>
    /\ last.outcome = "error"
    /\ simResult.t = "result" => ~IsNaN(simResult.results.option_price)

\* C5: handleMonteCarlo validates nothing and never fails: for every configuration,
\* iterations = 0 and parameters that are not finite included, the run reaches
\* setSimResult and logs the success entry, and the branch that logs
\* 'SIM: ENGINE STALL.' is never taken.
C5_NeverFails ==
  /\ \A k \in 1..Len(logs) : logs[k].message.text # "SIM: ENGINE STALL."
  /\ errors = <<>>
  /\ \A e \in sent : e.row.message.text # "SIM: ENGINE STALL."
  /\ last.outcome \in {"none", "ok"}
  /\ Ended <=> RunsEnded > 0
  /\ Ended => simResult.t = "result"
  /\ CountOf(logs, "SIM: STOCHASTIC CONVERGENCE ACHIEVED.") = RunsEnded

\* A run with iterations = 0 and a rate that is not a number has ended in the
\* success branch, its price NaN.
C5_Witness ==
  /\ Ended
  /\ last.outcome = "ok"
  /\ last.cfg.iterations = Zero
  /\ last.cfg.params.r = NaN
  /\ simResult.t = "result"
  /\ IsNaN(simResult.results.option_price)
  /\ logs[1].message.text = "SIM: STOCHASTIC CONVERGENCE ACHIEVED."

\* C6: the result of a run does not depend on the seed: whatever seed the
\* configuration of the ended run is given instead, a run that receives the same
\* source values produces the same price and summary.
C6_SeedIgnored ==
  Ended =>
    \A s \in SeedChoices :
      simResult = ResultFromDraws([last.cfg EXCEPT !.seed = s], last.draws)

\* Two runs have ended, the second under the seed 7, with the same positive price.
C6_Witness ==
  /\ Ended
  /\ last.cfg.seed = Fin(7 * Scale)
  /\ Len(last.draws) >= 1
  /\ Len(logs) = 4
  /\ logs[1].metadata.t = "price"
  /\ logs[3].metadata.t = "price"
  /\ logs[1].metadata.price = logs[3].metadata.price
  /\ IsFinite(logs[1].metadata.price)
  /\ logs[1].metadata.price.v > 0

\* max(S0*exp(r*T) - K, 0)
C7_Riskless(params) ==
  Max(Sub(Mul(params.S0, Exp(Mul(params.r, params.T))), params.K), Zero)

\* Every payoff of the last ended run is the riskless one, and so is its price,
\* discounted.
C7_Collapsed ==
  /\ \A k \in 1..Len(last.payoffs) : last.payoffs[k] = C7_Riskless(last.cfg.params)
  /\ simResult.t = "result"
  /\ simResult.results.option_price =
       Mul(Exp(Mul(Neg(last.cfg.params.r), last.cfg.params.T)), C7_Riskless(last.cfg.params))

\* A run with sigma = 0 and integer iterations >= 1 has ended.
C7_ZeroSigmaRun ==
  /\ Ended
  /\ last.cfg.params.sigma = Zero
  /\ IsWhole(last.cfg.iterations)
  /\ Trials(last.cfg) >= 1

\* C7 as stated: with sigma = 0 every payoff of a run is max(S0*exp(r*T) - K, 0)
\* whatever the sampler returns, and the price is exp(-r*T) times that, for every
\* iterations >= 1.  (It fails for a negative or infinite horizon T.)
C7_Original == C7_ZeroSigmaRun => C7_Collapsed

\* C7, amended: with sigma = 0, finite parameters and a horizon T >= 0, every payoff
\* of a run is max(S0*exp(r*T) - K, 0) whatever the sampler returns, and the price is
\* exp(-r*T) times that, for every integer iterations >= 1.
C7_ZeroVolatility ==
  ( /\ C7_ZeroSigmaRun
    /\ \A f \in {"S0", "K", "T", "r", "sigma"} : IsFinite(last.cfg.params[f])
    /\ ~Lt(last.cfg.params.T, Zero) ) => C7_Collapsed

\* A run of two trials with sigma = 0 and T = 1 has ended, its two draws different.
C7_Witness ==
  /\ C7_ZeroSigmaRun
  /\ last.cfg.params.T = One
  /\ Len(last.draws) = 2
  /\ BoxMullerValue(last.draws[1].u, last.draws[1].v)
       # BoxMullerValue(last.draws[2].u, last.draws[2].v)

\* One step taken while a run is in progress: no handler starts and no awaited reply
\* is handled, the run keeps its configuration and its trials, nothing else is logged
\* meanwhile, and the run ends only by completing, with all its trials on record.
C8_RunStep ==
  mcpc # "idle" =>
    /\ UNCHANGED <<simConfig, chatHistory, vfs, stream, isScanning, live, pend, ops>>
    /\ mcpc' # "idle" =>
         /\ appState' = "SIMULATING"
         /\ run'.cfg = run.cfg
         /\ Len(run'.draws) >= Len(run.draws)
         /\ UNCHANGED <<simResult, logs, errors, sent, last>>
    /\ mcpc' = "idle" =>
         /\ mcpc = "finish"
         /\ ~LoopContinues(run.i, run.cfg.iterations)
         /\ appState' = "IDLE"
         /\ last'.outcome # "none"
         /\ last'.cfg = run.cfg
         /\ last'.draws = run.draws

\* C8: simulation runs are serialized: a run executes from setting SIMULATING to
\* setting IDLE with no point at which another handler (another run, a build, a scan,
\* a directive reply) interleaves; at most one run is in progress, and no run is
\* cancelled or abandoned part-way.
C8_Serialized ==
  /\ [](mcpc # "idle" <=> appState = "SIMULATING")
  /\ [][C8_RunStep]_vars

\* A run is between two trials while a build's reply is awaited.
C8_Witness == mcpc = "drawU" /\ Len(run.draws) = 1 /\ pend.build > 0

\* simResult is null until a run has ended and then the result of the run that ended
\* last; once no run is in progress, that is the run requested last.
C9_Holds ==
  /\ simResult = IF Ended THEN ResultFromDraws(last.cfg, last.draws) ELSE Null
  /\ (mcpc = "idle" /\ ops.runs > 0) => Ended

\* simResult changes only when a run completes, and then to that run's result.
C9_Step ==
  simResult' # simResult =>
    /\ mcpc = "finish"
    /\ mcpc' = "idle"
    /\ simResult' = ResultFromDraws(run.cfg, run.draws)

\* C9: after any sequence of run requests simResult is the result of the run
\* requested last: each completed run overwrites the previous result entirely, and
\* no other operation (build, scan, directive, log flush) changes simResult.
C9_MostRecentRun == []C9_Holds /\ [][C9_Step]_vars

\* Two runs have ended and the result held differs from the first run's price.
C9_Witness ==
  /\ mcpc = "idle"
  /\ ops.runs = 2
  /\ Len(logs) = 4
  /\ logs[3].metadata.t = "price"
  /\ simResult.t = "result"
  /\ logs[3].metadata.price # simResult.results.option_price

\* C10: the simulation result is never persisted: every row handed to the database
\* is a "logs" row whose columns are level, message, details, file and code_snippet,
\* the last three null; the success entry's price metadata is not among them, and the
\* only number a message carries is the iterations count of the entry that opens a run.
C10_ResultNotPersisted ==
  \A e \in sent :
    /\ e.table = "logs"
    /\ DOMAIN e.row = {"level", "message", "details", "file", "code_snippet"}
    /\ e.row.details = Null
    /\ e.row.file = Null
    /\ e.row.code_snippet = Null
    /\ e.row.message.arg.t \in {"fin", "nan", "inf"} =>
         e.row.message.text = "SIM: RUNNING PRODUCTION-GRADE MC (N="

\* A run has ended with a price, its success entry (which holds the price as
\* metadata) was handed to persistLog and is still in the log.
C10_Witness ==
  /\ simResult.t = "result"
  /\ \E e \in sent : e.row.message.text = "SIM: STOCHASTIC CONVERGENCE ACHIEVED."
  /\ \E k \in 1..Len(logs) :
       /\ logs[k].metadata.t = "price"
       /\ logs[k].metadata.price = simResult.results.option_price

\* A run that ends, ends with appState IDLE and on record.
C11_EndStep == (mcpc # "idle" /\ mcpc' = "idle") => (appState' = "IDLE" /\ last'.cfg = run.cfg)

\* C11: for every finite iterations value a run terminates, and when it ends
\* (normally or through the error branch) appState is IDLE again.
C11_RunTerminates ==
  /\ (mcpc # "idle" /\ IsFinite(run.cfg.iterations)) ~> (mcpc = "idle" /\ appState = "IDLE")
  /\ [][C11_EndStep]_vars

\* A run of two trials with finite iterations is in its first trial, redrawing a zero.
C11_Witness ==
  /\ mcpc = "drawV"
  /\ run.zero
  /\ run.cfg.iterations = Fin(2 * Scale)
  /\ Len(run.draws) = 0
  /\ appState = "SIMULATING"

\* The asynchronous operations in flight that announce themselves in appState: master
\* builds, capture analyses and directives sent to solveError.
InFlight == pend.build + pend.scan + pend.solve

\* C12 as stated: whenever a master build, a capture analysis or a directive sent to
\* solveError is in flight, appState is not IDLE, also when operations overlap.  (It
\* fails: the first operation to finish sets IDLE while the other is pending.)
C12_Original == InFlight > 0 => appState # "IDLE"

\* A step that starts an asynchronous operation leaves appState not IDLE.
C12_StartStep == InFlight' > InFlight => appState' # "IDLE"

\* A step that makes appState IDLE while an operation is in flight is the end of a
\* handler: of another operation, of a simulation run, or of a capture that failed
\* before its request.
C12_IdleStep ==
  (InFlight' > 0 /\ appState' = "IDLE" /\ appState # "IDLE") =>
    \/ InFlight' < InFlight
    \/ mcpc = "finish"
    \/ (ops'.cmds > ops.cmds /\ pend' = pend /\ stream # 0 /\ ~isScanning)

\* C12, amended: every handler that starts an asynchronous operation sets appState to
\* a value other than IDLE before it awaits, and while that operation is the only
\* handler invoked so far appState is not IDLE; appState becomes IDLE while an
\* operation is in flight only when another handler ends.
C12_BusyUntilAHandlerEnds ==
  /\ []((InFlight = 1 /\ ops.cmds + ops.runs = 1) => appState # "IDLE")
  /\ [][C12_StartStep /\ C12_IdleStep]_vars

\* A build and a directive overlapped; the directive's reply came first and set IDLE
\* while the build is still in flight.
C12_Witness ==
  /\ pend.build = 1
  /\ pend.solve = 0
  /\ ops.cmds = 2
  /\ appState = "IDLE"
  /\ Len(chatHistory) = 2
  /\ chatHistory[2].role = "assistant"

\* No handler is running or waiting for a reply.
Quiescent ==
  /\ mcpc = "idle"
  /\ pend.build = 0
  /\ pend.scan = 0
  /\ pend.solve = 0
  /\ pend.media = 0

\* C13: a failure of the AI request layer is log-and-continue in every handler: when
\* the request of a build, a scan analysis or a free-text directive rejects or returns
\* text that is not JSON, the handler still completes and appState returns to IDLE;
\* so once every handler has ended, appState is IDLE.  (It is not: executeCommand
\* awaits solveError outside any try, and a rejection leaves appState ANALYZING.)
C13_IdleOnceHandlersEnd == Quiescent => appState = "IDLE"

\* The functions of the persistence client.
ClientFns == {"persistAppState", "persistLog", "persistChat", "fetchLatestSession"}

\* The request of the settled call failed: it threw, or answered with an error.
RequestFailed == cloud.lastResult.reply \in {"throw", "error"}

\* C14: persistAppState, persistLog, persistChat and fetchLatestSession never reject,
\* whatever their request did; fetchLatestSession resolves to null after every failure
\* but "no row" (PGRST116), after which it resolves to the data of the answer, which
\* is empty, and to the row of the answer when there was no failure.
C14_ClientNeverRejects ==
  cloud.lastResult.fn \in ClientFns =>
    /\ cloud.lastResult.result.settled = "resolved"
    /\ cloud.lastResult.fn = "fetchLatestSession" =>
         /\ (RequestFailed /\ cloud.lastResult.code # "PGRST116") =>
              cloud.lastResult.result.value = Null
         /\ cloud.lastResult.code = "PGRST116" =>
              /\ cloud.lastResult.result.value = cloud.lastResult.data
              /\ ~Truthy(cloud.lastResult.result.value)
         /\ ~RequestFailed =>
              /\ cloud.lastResult.result.value = cloud.lastResult.data
              /\ cloud.lastResult.result.value.t = "row"

\* C14: a fetchLatestSession whose request threw has resolved to null.
C14_Witness ==
  /\ cloud.lastResult.fn = "fetchLatestSession"
  /\ cloud.lastResult.reply = "throw"
  /\ cloud.lastResult.result = Resolved(Null)

\* Everything but simConfig.
butSimConfig ==
  <<appState, simResult, logs, errors, chatHistory, vfs, stream, isScanning, live, sent,
    pend, mcpc, run, last, ops, cloud, ai>>

\* A step that changes simConfig changes one of iterations and seed to a value entered
\* in its control, and nothing else of the application.
C15_EditStep ==
  simConfig' # simConfig =>
    /\ UNCHANGED butSimConfig
    /\ simConfig'.params = simConfig.params
    /\ \/ /\ simConfig'.iterations \in IterChoices
          /\ simConfig'.seed = simConfig.seed
       \/ /\ simConfig'.seed \in SeedChoices
          /\ simConfig'.iterations = simConfig.iterations

\* C15: a control changes only the field it edits, so each of iterations and seed
\* holds the value entered last in its control (the default before any), and params
\* keeps its default through every operation.
C15_OnlyTheEditedField ==
  /\ [](simConfig.params = DefaultParams)
  /\ [][C15_EditStep]_vars

\* C15: both fields were edited, iterations first, and a run with them has ended.
C15_Witness ==
  /\ Ended
  /\ simConfig.iterations = Fin(2 * Scale)
  /\ simConfig.seed = Fin(7 * Scale)
  /\ last.cfg = simConfig
  /\ simConfig.params = DefaultParams

\* The session state the write would store.
SessionState == <<cloud.vfs, cloud.pilotConfig>>

\* A step that calls persistAppState does so 2000 ms or more after the last change
\* of the session state, and there was one.
C16_WriteStep ==
  cloud'.writes > cloud.writes =>
    /\ cloud.changes > 0
    /\ cloud.now >= cloud.changedAt + DebounceMs
    /\ cloud'.timers = {}

\* A step that changes the session state leaves one write scheduled, 2000 ms from
\* now: the one scheduled before is cancelled, and nothing is written in that step.
C16_ChangeStep ==
  SessionState' # SessionState =>
    /\ cloud'.timers = {[id |-> cloud'.timerIds, due |-> cloud.now + DebounceMs]}
    /\ cloud'.timerIds = cloud.timerIds + 1
    /\ cloud'.writes = cloud.writes

\* C16: persistAppState is called only once vfs and pilotConfig have stayed unchanged
\* for 2000 ms; a change before that cancels the write scheduled; at most one write is
\* scheduled at any time; the initial mount schedules none.
C16_Debounced ==
  /\ [](Cardinality(cloud.timers) <= 1)
  /\ [](cloud.changes = 0 => (cloud.timerIds = 0 /\ cloud.writes = 0))
  /\ [](~cloud.isInitialMount => cloud.mounted)
  /\ [][C16_WriteStep /\ C16_ChangeStep]_vars

\* C16: the session state changed twice, the second change cancelled the write the
\* first had scheduled, and the only write began 2000 ms after the second.
C16_Witness ==
  /\ cloud.changes = 2
  /\ cloud.timerIds = 2
  /\ cloud.writes = 1
  /\ cloud.calls.persistAppState = 1
  /\ cloud.timers = {}
  /\ cloud.now = cloud.changedAt + DebounceMs
  /\ cloud.changedAt > 0

\* C20: once the load of the latest session at start-up, or a write of the session
\* state, has failed (an error answer or a thrown network error), cloudStatus is
\* 'error'.
C20_FailureShown ==
  cloud.lastSync \in {"loadFailed", "writeFailed"} => cloud.cloudStatus = "error"

\* cloudStatus is never 'error' at all.
C20_NeverError == cloud.cloudStatus # "error"

\* The price the last run reported.
ReportedPrice == simResult.results.option_price

\* C18: when a run has reported a price, the loop accumulated as many payoffs as the
\* number the sum was divided by, whatever number iterations held.
C18_CountIsDivisor ==
  (Ended /\ last.outcome = "ok") => Fin(Len(last.payoffs) * Scale) = last.cfg.iterations

\* a >= 0 in JavaScript: false for NaN.
NonNeg(a) == ~IsNaN(a) /\ ~Lt(a, Zero)

\* Every parameter is a finite number.
FiniteParams(params) ==
  /\ IsFinite(params.S0)
  /\ IsFinite(params.K)
  /\ IsFinite(params.T)
  /\ IsFinite(params.r)
  /\ IsFinite(params.sigma)

\* iterations >= 1
AtLeastOne(cfg) == ~IsNaN(cfg.iterations) /\ ~Lt(cfg.iterations, One)

\* C19 as stated: for finite parameters every accumulated payoff is >= 0, and with
\* iterations >= 1 the reported price is >= 0.
C19_Original ==
  (Ended /\ FiniteParams(last.cfg.params)) =>
    /\ \A k \in 1..Len(last.payoffs) : NonNeg(last.payoffs[k])
    /\ AtLeastOne(last.cfg) => NonNeg(ReportedPrice)

\* Finite parameters whose maturity is not negative.
Priceable(params) == FiniteParams(params) /\ ~Lt(params.T, Zero)

\* During a run with such parameters the sum does not decrease from one trial to the
\* next.
C19_SumStep ==
  (mcpc # "idle" /\ mcpc' # "idle" /\ Priceable(run.cfg.params)) => ~Lt(run'.sum, run.sum)

\* C19: every accumulated payoff is >= 0 or NaN and the running sum is never below 0;
\* for finite parameters with T >= 0 no payoff is NaN, the running sum never
\* decreases and is >= 0, and with iterations >= 1 the reported price is >= 0.
C19_NonNegative ==
  /\ [](\A k \in 1..Len(run.payoffs) : IsNaN(run.payoffs[k]) \/ NonNeg(run.payoffs[k]))
  /\ [](~Lt(run.sum, Zero))
  /\ [](Priceable(run.cfg.params) =>
          /\ \A k \in 1..Len(run.payoffs) : NonNeg(run.payoffs[k])
          /\ NonNeg(run.sum))
  /\ []((Ended /\ Priceable(last.cfg.params)) =>
          /\ \A k \in 1..Len(last.payoffs) : NonNeg(last.payoffs[k])
          /\ AtLeastOne(last.cfg) => NonNeg(ReportedPrice))
  /\ [][C19_SumStep]_vars

\* C19: a run of two trials with finite parameters and T >= 0 has ended; its first
\* payoff and its price are above 0.
C19_Witness ==
  /\ Ended
  /\ Priceable(last.cfg.params)
  /\ Len(last.payoffs) = 2
  /\ Lt(Zero, last.payoffs[1])
  /\ Lt(Zero, ReportedPrice)

\* The JSON texts nested at most d deep, each with its value: 1, null, {} and
\* {"k": j} for a JSON text j.
RECURSIVE JsonOfDepth(_)
JsonOfDepth(d) ==
  IF d = 0
  THEN {<<<<"1">>, JsonNumber>>, <<<<"null">>, JsonNull>>, <<<<"{", "}">>, EmptyObject>>}
  ELSE JsonOfDepth(d - 1)
         \cup {<<<<"{", "\"k\":">> \o p[1] \o <<"}">>, ObjectWith(p[2])>> : p \in JsonOfDepth(d - 1)}

\* Every JSON text among the response texts, with its value.
ValidJson == JsonOfDepth(MaxText)

\* The response of the settled call had no text, or the empty one.
EmptyText == ai.reply.kind = "notext" \/ (ai.reply.kind = "text" /\ ai.reply.text = <<>>)

\* The response text of the settled call is not empty and is no JSON.
Malformed ==
  /\ ai.reply.kind = "text"
  /\ ai.reply.text # <<>>
  /\ \A p \in ValidJson : p[1] # ai.reply.text

\* The fixed fallback of each function.
FallbackOf(fn) ==
  IF fn = "generateErrorReport" THEN ReportFallback
  ELSE IF fn = "runWebAutomation" THEN AutomationFallback
  ELSE IF fn = "runSimulation" THEN SimulationFallback
  ELSE FixFallback

\* What a function returns for the parsed value: the value itself, but autonomousFix
\* an object of the value's properties and the grounding chunks.
ReturnOf(fn, value) ==
  IF fn = "autonomousFix"
  THEN [t |-> "object",
        parsed |-> IF value \in {JsonNumber, JsonNull} THEN EmptyObject ELSE value,
        sources |-> ai.reply.chunks]
  ELSE value

\* The functions that parse JSON.
ParsingFns == {"generateErrorReport", "runWebAutomation", "runSimulation", "autonomousFix"}

\* C17 as stated: for a malformed or empty response text each function returns its
\* fixed fallback.
C17_Original ==
  (ai.fn \in ParsingFns /\ (Malformed \/ EmptyText)) =>
    ai.result = Resolved(FallbackOf(ai.fn))

\* C17: no response text makes one of the four functions throw.  For a text that is
\* not empty and is no JSON each returns its fixed fallback; for an empty or missing
\* text each returns what parsing "{}" gives, the empty object, not the fallback; for
\* JSON each returns the parsed value, autonomousFix the parsed properties with the
\* sources added.
C17_ParseOrFallback ==
  (ai.fn \in ParsingFns /\ ai.reply.kind # "reject") =>
    /\ ai.result.settled = "resolved"
    /\ Malformed => ai.result.value = FallbackOf(ai.fn)
    /\ EmptyText =>
         /\ ai.result.value = ReturnOf(ai.fn, EmptyObject)
         /\ ai.result.value # FallbackOf(ai.fn)
    /\ \A p \in ValidJson :
         (ai.reply.kind = "text" /\ ai.reply.text = p[1]) =>
            ai.result.value = ReturnOf(ai.fn, p[2])

\* C17: runSimulation got a text cut off after a key and returned its fallback.
C17_Witness ==
  /\ ai.fn = "runSimulation"
  /\ ai.reply.kind = "text"
  /\ ai.reply.text = <<"{", "\"k\":">>
  /\ ai.result = Resolved(SimulationFallback)

\* A fresh start has loaded the row a successful write left, and nothing has changed
\* the session state since.
Restored ==
  /\ cloud.starts > 0
  /\ cloud.saved.set
  /\ cloud.lastSync = "loaded"
  /\ cloud.changes <= 1
  /\ cloud.creates = 0
  /\ cloud.writes = 0

\* After a successful write a fresh start restores the vfs that was written.
C21_VfsRestored == Restored => cloud.vfs = cloud.saved.vfs

\* C21: after a successful debounced write of (vfs, pilotConfig), a fresh start that
\* loads the latest session has the same vfs and the same pilotConfig as were passed
\* to the write.
C21_RoundTrip ==
  Restored =>
    /\ cloud.vfs = cloud.saved.vfs
    /\ cloud.pilotConfig = cloud.saved.pilotConfig

\* C22: stream follows the live capture: while the track of the stream granted last
\* has not ended, stream is that stream; the end of an earlier stream's track does
\* not clear it.
C22_StreamFollowsCapture == ops.granted \in live => stream = ops.granted

\* The entries of ls whose message begins with the telemetry prefix.
Telemetry(ls) == SelectSeq(ls, LAMBDA l : l.message.text = "KERN: ")

\* The step in which a master build's request settles, for each reply: a rejection
\* or text that is no JSON leaves vfs as it was, adds no telemetry entry and puts one
\* error entry 'BUILDER: ORCHESTRATION FAILED.' in front of logs and of errors; a
\* response without files leaves vfs as it was and adds no telemetry entry.
C23_SettleStep ==
  pend'.build < pend.build =>
    /\ ops'.built \in {"reject", "badjson", "nofiles"} =>
         /\ vfs' = vfs
         /\ Telemetry(logs') = Telemetry(logs)
         /\ \A e \in sent' \ sent : e.row.message.text # "KERN: "
    /\ ops'.built \in {"reject", "badjson"} =>
         /\ Len(logs') = Len(logs) + 1
         /\ Tail(logs') = logs
         /\ Len(errors') = Len(errors) + 1
         /\ Tail(errors') = errors
         /\ Head(errors') = Head(logs')
         /\ Head(logs').level = "error"
         /\ Head(logs').message.text = "BUILDER: ORCHESTRATION FAILED."

\* C23: a master build that fails (the request rejects, or its text is not JSON) or
\* whose response has no files field leaves the virtual file tree unchanged and adds
\* no telemetry log; a failed one logs exactly one error entry,
\* 'BUILDER: ORCHESTRATION FAILED.'.
C23_FailedBuildChangesNothing == [][C23_SettleStep]_vars

\* C23: after a build that stored two files, a second build's text was no JSON: the
\* two files are there and the one error entry is the newest log.
C23_Witness ==
  /\ ops.built = "badjson"
  /\ pend.build = 0
  /\ Len(vfs) = 2
  /\ Len(errors) = 1
  /\ errors[1].message.text = "BUILDER: ORCHESTRATION FAILED."
  /\ logs[1] = errors[1]

\* The paths of the nodes or files in a sequence.
PathsOf(fs) == {fs[k].path : k \in 1..Len(fs)}

\* The content the last file of fs with path p carries.
LastContent(fs, p) ==
  LET k == CHOOSE i \in 1..Len(fs) :
             fs[i].path = p /\ \A j \in (i + 1)..Len(fs) : fs[j].path # p
  IN fs[k].content

\* No two children of the root have the same path.
NoTwoSamePath == \A i, j \in 1..Len(vfs) : vfs[i].path = vfs[j].path => i = j

\* The step in which a build with files settles: for the files of some response, each
\* child keeps its place and path, and its content unless the response lists its
\* path, then it takes the content listed last; one child is appended for each new
\* path, with the content listed last for it.
C24_StoreStep ==
  (pend'.build < pend.build /\ ops'.built = "files") =>
    \E reply \in BuildReplies :
      /\ reply.kind = "files"
      /\ Len(vfs') = Len(vfs) + Cardinality(PathsOf(reply.files) \ PathsOf(vfs))
      /\ PathsOf(vfs') = PathsOf(vfs) \cup PathsOf(reply.files)
      /\ \A k \in 1..Len(vfs) : vfs'[k].path = vfs[k].path
      /\ \A k \in 1..Len(vfs') :
           vfs'[k].content = IF vfs'[k].path \in PathsOf(reply.files)
                             THEN LastContent(reply.files, vfs'[k].path)
                             ELSE vfs[k].content

\* C24: after any sequence of master builds no two children of the root have the
\* same path: a returned file whose path exists replaces that child's content and
\* only a file with a new path is appended, also when one response lists a path
\* twice.
C24_PathsUnique ==
  /\ []NoTwoSamePath
  /\ [][C24_StoreStep]_vars

\* C24: one build whose response listed src/a.ts twice has settled: one child, with
\* the content listed second.
C24_Witness ==
  /\ ops.cmds = 1
  /\ ops.built = "files"
  /\ pend.build = 0
  /\ Len(vfs) = 1
  /\ vfs[1].path = <<"src", "a.ts">>
  /\ vfs[1].content = "y"

\* The smaller of two numbers.
Least(a, b) == IF a < b THEN a ELSE b

\* The step of an addLog call: the new entry is first in logs, the entries held
\* follow in their order, and of more than 50 the oldest is dropped; an error-level
\* entry is also put first in errors, another level leaves errors as it was.
C25_AddStep ==
  LogCalls' > LogCalls =>
    /\ Len(logs') = Least(Len(logs) + 1, LogCap)
    /\ Head(logs').message.arg = Serial(LogCalls')
    /\ \A k \in 2..Len(logs') : logs'[k] = logs[k - 1]
    /\ IF Head(logs').level = "error"
       THEN errors' = <<Head(logs')>> \o errors
       ELSE errors' = errors

\* The step of Flush_Buffer: logs is emptied, errors is left as it was.
C25_FlushStep ==
  (LogCalls' = LogCalls /\ logs' # logs) => (logs' = <<>> /\ errors' = errors)

\* C25: after any sequence of addLog calls and flushes logs holds at most 50 entries,
\* newest first, the oldest dropped; every error-level entry is added to logs and to
\* errors; a flush empties logs and leaves errors unchanged.
C25_LogBuffer ==
  /\ [](Len(logs) <= LogCap)
  /\ [](\A k \in 1..Len(logs) : logs[k].message.arg = Serial(LogCalls - k + 1))
  /\ [](\A e \in sent : e.row.level = "error" =>
          \E k \in 1..Len(errors) : errors[k].message = e.row.message)
  /\ [][C25_AddStep /\ C25_FlushStep]_vars

\* C25: the 52nd entry was added to a full buffer that holds the error entry: logs
\* has 50 entries, the newest first and the two oldest dropped.
C25_Witness ==
  /\ LogCalls = 52
  /\ Len(logs) = 50
  /\ logs[1].message.arg = Serial(52)
  /\ logs[50].message.arg = Serial(3)
  /\ Len(errors) = 1
  /\ \E k \in 1..50 : logs[k] = errors[1]

\* The step of a capture attempted with no stream: one error entry
\* 'SCANNER: SOURCE STREAM MISSING.' is logged and isScanning, appState and
\* chatHistory stay as they were; nothing goes in flight.
C26_NoStreamStep ==
  (ops'.captures > ops.captures /\ stream = 0) =>
    /\ ops'.capture = "nostream"
    /\ Len(logs') = Len(logs) + 1
    /\ Tail(logs') = logs
    /\ Head(logs').level = "error"
    /\ Head(logs').message.text = "SCANNER: SOURCE STREAM MISSING."
    /\ errors' = <<Head(logs')>> \o errors
    /\ isScanning' = isScanning
    /\ appState' = appState
    /\ chatHistory' = chatHistory
    /\ pend' = pend

\* The step in which a capture-and-analyze ends, in success or failure, leaves
\* isScanning false.
C26_EndStep == pend'.scan < pend.scan => ~isScanning'

\* C26: isScanning is true exactly while a capture-and-analyze is in flight and
\* false again after it ends; at most one is in flight at a time; a capture attempted
\* with no stream logs an error and changes neither isScanning, appState nor
\* chatHistory.
C26_OneCaptureAtATime ==
  /\ [](isScanning <=> pend.scan > 0)
  /\ [](pend.scan <= 1)
  /\ [][C26_EndStep /\ C26_NoStreamStep]_vars

\* C26: a second capture is in flight after the first ended: isScanning is true again.
C26_Witness ==
  /\ ops.cmds = 2
  /\ ops.capture = "sent"
  /\ pend.scan = 1
  /\ isScanning
  /\ Len(chatHistory) = 1
  /\ chatHistory[1].role = "assistant"

\* C26: a capture was attempted after the stream's track had ended.
C26_NoStreamReached ==
  /\ ops.capture = "nostream"
  /\ stream = 0
  /\ ~isScanning
  /\ errors # <<>>
  /\ errors[1].message.text = "SCANNER: SOURCE STREAM MISSING."

====
